---- MODULE Spec2Model ----
(***************************************************************************)
(* Trading engine of TradeSeeker (alpha_arena_deepseekold.py): the         *)
(* portfolio ledger, the exit monitor, the decision validator, the risk    *)
(* gate and the two loops (decision cycle, background TP/SL monitor).      *)
(*                                                                         *)
(* Fixed-point units used throughout:                                      *)
(*   money        cents                (200.00 USD = 20000)                *)
(*   price        ticks                (a quote near 1.000 = 1000)         *)
(*   quantity     1/QtyScale coin per tick-priced unit                     *)
(*   confidence   basis points         (0.75 = 7500)                       *)
(*   profit level permille             (0.7 % = 7)                         *)
(* A missing / None number is written 0 (every real price is > 0).         *)
(***************************************************************************)
EXTENDS Integers, Sequences, FiniteSets, TLC

\* ------------------------------------------------------------------------
\* Bounds of the exploration (not program constants)
\* ------------------------------------------------------------------------
MaxCycleMain == 2
MaxCycleCrash == 1
MaxCycleRamp == 1
MaxCycleStall == 11
MaxCycleTrail == 2
MaxCycleOutage == 3
MaxCycleWindow == 7
MaxCyclePair == 2
MaxCycleFlip == 3
MaxCycleFaulty == 2
MaxCycleConsole == 2
MaxCycleStore == 1
MaxDocument == 3
MaxCycleLongrun == 52
MaxRestarts == 1
MaxCycleLever == 1
MaxCycleCapped == 1
MaxCycleThin == 1
MaxCycleNan == 2
MaxCycleRefusal == 1
MaxCyclePreempt == 2
MaxCycleResend == 1
MaxCycleVeteran == 1
MaxEarlierTrades == 102
MaxOverridesResend == 2
MaxKlineCalls == 2

\* ------------------------------------------------------------------------
\* Program constants
\* ------------------------------------------------------------------------
QtyScale == 1000
ConfOne == 10000
INITIAL_BALANCE == 20000
MIN_POSITION_MARGIN_USD == 1500
MAX_LEVERAGE == 20
MIN_CONFIDENCE == 4000
EMA_NEUTRAL_BAND_PCT == 15
INTRADAY_NEUTRAL_RSI_HIGH == 60
INTRADAY_NEUTRAL_RSI_LOW == 40
trend_flip_cooldown == 3
max_cycle_history == 50
CachedCycles == 5
counter_confidence_floor == 7500
SameDirectionLimitLoose == 4 + 1

SameDirectionLimit == 4
StallCycles == 10
MaximumLimitFixed == 1500
MaximumLimitPct == 15
MinAvailableCashPct == 10

available_coins == <<"XRP", "DOGE", "JASMY", "ADA", "LINK", "SOL">>

Coins == {available_coins[i] : i \in 1..Len(available_coins)}

\* Config has RISK_LEVEL 'medium' by default; AdvancedRiskManager.__init__
\* then sets max_portfolio_risk = 0.08 (here in basis points).
max_portfolio_risk == 800
max_concentration == 25
max_positions == 6
RiskTotalBalance == 20000

\* config.py defines neither DIRECTIONAL_NEUTRAL_CONFIDENCE_MODIFIER nor
\* DIRECTIONAL_CONFLICT_CONFIDENCE_MODIFIER: reading them raises
\* AttributeError.
ConfigHasNeutralConfidenceModifier == FALSE

ConfigHasConflictConfidenceModifier == FALSE

\* ------------------------------------------------------------------------
\* Small helpers
\* ------------------------------------------------------------------------
Max(a, b) == IF a >= b THEN a ELSE b

Min(a, b) == IF a <= b THEN a ELSE b

Abs(a) == IF a >= 0 THEN a ELSE 0 - a

\* floor(a * num / den) for a >= 0, 0 <= num, den > 0, without forming a * num
MulDiv(a, num, den) == (a \div den) * num + ((a % den) * num) \div den

RECURSIVE SumSeq(_)
SumSeq(s) == IF s = << >> THEN 0 ELSE Head(s) + SumSeq(Tail(s))

\* positions is a dict keyed by coin that keeps insertion order: a sequence
\* of position records, at most one per symbol.
PosIndex(ps, c) == CHOOSE i \in 1..Len(ps) : ps[i].symbol = c

HasPos(ps, c) == \E i \in 1..Len(ps) : ps[i].symbol = c

PosOf(ps, c) == ps[PosIndex(ps, c)]

DelPos(ps, c) == SelectSeq(ps, LAMBDA p : p.symbol # c)

SetPos(ps, p) ==
  IF HasPos(ps, p.symbol)
  THEN [i \in 1..Len(ps) |-> IF ps[i].symbol = p.symbol THEN p ELSE ps[i]]
  ELSE Append(ps, p)

PosSymbols(ps) == {ps[i].symbol : i \in 1..Len(ps)}

\* pnl of `qty` units between entry and price, per direction
\* (update_prices, check_and_execute_tp_sl, execute_decision all use it).
Pnl(direction, entry, price, qty) ==
  IF direction = "long"
  THEN ((price - entry) * qty) \div QtyScale
  ELSE ((entry - price) * qty) \div QtyScale

\* ------------------------------------------------------------------------
\* Exit strategy (pure functions of a position, a price and the cash)
\* ------------------------------------------------------------------------
get_profit_levels_by_notional(notional_usd) ==
  IF notional_usd < 15000 THEN
    [level1 |-> 7, level2 |-> 9, level3 |-> 11, take1 |-> 25, take2 |-> 50, take3 |-> 75]
  ELSE IF notional_usd < 30000 THEN
    [level1 |-> 7, level2 |-> 9, level3 |-> 11, take1 |-> 25, take2 |-> 50, take3 |-> 75]
  ELSE IF notional_usd < 40000 THEN
    [level1 |-> 6, level2 |-> 8, level3 |-> 10, take1 |-> 25, take2 |-> 50, take3 |-> 75]
  ELSE IF notional_usd < 50000 THEN
    [level1 |-> 5, level2 |-> 7, level3 |-> 9, take1 |-> 25, take2 |-> 50, take3 |-> 75]
  ELSE IF notional_usd < 60000 THEN
    [level1 |-> 4, level2 |-> 6, level3 |-> 8, take1 |-> 25, take2 |-> 50, take3 |-> 75]
  ELSE
    [level1 |-> 3, level2 |-> 5, level3 |-> 7, take1 |-> 25, take2 |-> 50, take3 |-> 75]

\* max(15 USD, 15 % of the available cash)
calculate_maximum_limit(balance) ==
  Max(MaximumLimitFixed, (balance * MaximumLimitPct) \div 100)

adjust_partial_sale_unlimited(position, proposed_percent, balance) ==
  [num |-> proposed_percent, den |-> 100, force_close |-> FALSE]

\* Returns the close fraction as num/den and the force_close flag.
adjust_partial_sale_for_max_limit(position, proposed_percent, balance) ==
  LET current_margin == position.margin_usd
      max_limit == calculate_maximum_limit(balance)
  IN IF current_margin <= max_limit
     THEN [num |-> 0, den |-> 1, force_close |-> TRUE]
     ELSE IF current_margin * (100 - proposed_percent) >= max_limit * 100
     THEN [num |-> proposed_percent, den |-> 100, force_close |-> FALSE]
     ELSE [num |-> current_margin - max_limit, den |-> current_margin,
           force_close |-> FALSE]

NoReason == [kind |-> "none", n |-> 0]

HoldDecision ==
  [action |-> "hold", reason |-> NoReason, num |-> 0, den |-> 1, new_stop |-> 0]

\* gain of the position at the price is at least `level` permille
GainAtLeast(position, current_price, level) ==
  IF position.direction = "long"
  THEN (current_price - position.entry_price) * 1000 >= level * position.entry_price
  ELSE (position.entry_price - current_price) * 1000 >= level * position.entry_price

\* one tier of the profit-taking ladder: force close, partial close, or
\* nothing (adjusted_percent = 0)
ProfitTierDeclined(position, take, level, balance) == HoldDecision

ProfitTier(position, take, level, balance) ==
  LET adj == adjust_partial_sale_for_max_limit(position, take, balance)
  IN IF adj.force_close
     THEN [action |-> "close_position",
           reason |-> [kind |-> "Position margin <= maximum limit", n |-> 0],
           num |-> 0, den |-> 1, new_stop |-> 0]
     ELSE IF adj.num > 0
     THEN [action |-> "partial_close",
           reason |-> [kind |-> "Profit taking at gain", n |-> level],
           num |-> adj.num, den |-> adj.den, new_stop |-> 0]
     ELSE HoldDecision

\* the trailing stop that follows the ladder when the ladder returned nothing
TrailingStop(position, current_price, lv) ==
  LET e == position.entry_price
      tight == IF position.direction = "long"
               THEN e + (e * lv.level1) \div 1000
               ELSE e - (e * lv.level1) \div 1000
      normal == IF position.direction = "long"
                THEN e + (e * lv.level1) \div 2000
                ELSE e - (e * lv.level1) \div 2000
      reached(stop) == IF position.direction = "long"
                       THEN current_price >= stop ELSE current_price <= stop
  IN IF GainAtLeast(position, current_price, lv.level2)
     THEN IF reached(tight)
          THEN [action |-> "update_stop",
                reason |-> [kind |-> "Tight trailing stop", n |-> lv.level2],
                num |-> 0, den |-> 1, new_stop |-> tight]
          ELSE HoldDecision
     ELSE IF GainAtLeast(position, current_price, lv.level1)
     THEN IF reached(normal)
          THEN [action |-> "update_stop",
                reason |-> [kind |-> "Normal trailing stop", n |-> lv.level1],
                num |-> 0, den |-> 1, new_stop |-> normal]
          ELSE HoldDecision
     ELSE HoldDecision

LossMultiplier(margin_used) ==
  IF margin_used < 3000 THEN 8
  ELSE IF margin_used < 4000 THEN 7
  ELSE IF margin_used < 5000 THEN 6
  ELSE 5

enhanced_exit_strategy(position, current_price, balance) ==
  LET margin_used == position.margin_usd
      lossThresholdX100 == margin_used * LossMultiplier(margin_used)
      unrealized_loss_usd ==
        Max(0, 0 - Pnl(position.direction, position.entry_price, current_price,
                       position.quantity))
      lv == get_profit_levels_by_notional(position.notional_usd)
      ladder ==
        IF GainAtLeast(position, current_price, lv.level3)
        THEN ProfitTier(position, lv.take3, lv.level3, balance)
        ELSE IF GainAtLeast(position, current_price, lv.level2)
        THEN ProfitTier(position, lv.take2, lv.level2, balance)
        ELSE IF GainAtLeast(position, current_price, lv.level1)
        THEN ProfitTier(position, lv.take1, lv.level1, balance)
        ELSE HoldDecision
  IN IF position.loss_cycle_count >= StallCycles /\ position.unrealized_pnl <= 0
     THEN [action |-> "close_position",
           reason |-> [kind |-> "Position negative for n cycles",
                       n |-> position.loss_cycle_count],
           num |-> 0, den |-> 1, new_stop |-> 0]
     ELSE IF unrealized_loss_usd * 100 >= lossThresholdX100 /\ lossThresholdX100 > 0
     THEN [action |-> "close_position",
           reason |-> [kind |-> "Margin-based loss cut", n |-> 0],
           num |-> 0, den |-> 1, new_stop |-> 0]
     ELSE IF ladder.action # "hold"
     THEN ladder
     ELSE TrailingStop(position, current_price, lv)

\* ------------------------------------------------------------------------
\* Ledger: the PortfolioManager fields an operation reads and writes, as one
\* record threaded through the operations of a handler:
\*   current_balance, positions, trade_history, trade_count,
\*   directional_bias, total_value, state_file (portfolio_state.json) and
\*   events (what the handler logged, in order).
\* ------------------------------------------------------------------------
EmptyBiasSide ==
  [rolling |-> << >>, net_pnl |-> 0, trades |-> 0, wins |-> 0, losses |-> 0,
   consecutive_losses |-> 0]

init_directional_bias == [long |-> EmptyBiasSide, short |-> EmptyBiasSide]

\* deque(maxlen=20).append
DequeAppend(q, x) ==
  IF Len(q) >= 20 THEN Append(Tail(q), x) ELSE Append(q, x)

update_directional_bias(bias, trade) ==
  LET stats == bias[trade.direction]
      pnl == trade.pnl
      upd == [stats EXCEPT
                !.rolling = DequeAppend(stats.rolling, pnl),
                !.net_pnl = stats.net_pnl + pnl,
                !.trades = stats.trades + 1,
                !.wins = IF pnl > 0 THEN stats.wins + 1 ELSE stats.wins,
                !.losses = IF pnl < 0 THEN stats.losses + 1 ELSE stats.losses,
                !.consecutive_losses =
                   IF pnl < 0 THEN stats.consecutive_losses + 1 ELSE 0]
  IN [bias EXCEPT ![trade.direction] = upd]

get_directional_bias_metrics(bias) ==
  [side \in {"long", "short"} |->
     LET r == bias[side].rolling
     IN [rolling_sum |-> SumSeq(r),
         rolling_len |-> Len(r),
         consecutive_losses |-> bias[side].consecutive_losses]]

\* a float that is not a number, as json.loads hands it over for the token
\* NaN of an answer; every ordered comparison with it is false
NaN == 0 - 1

\* the token json.dump writes for it (allow_nan is left at its default)
NaNToken == 0 - 2

\* json.dump of one number: the value itself, or the token
dump_number(x) == IF x = NaN THEN NaNToken ELSE x

\* json.load of one number
load_number(t) == IF t = NaNToken THEN NaN ELSE t

dump_positions(positions) ==
  [k \in 1..Len(positions) |->
     [positions[k] EXCEPT !.profit_target = dump_number(@)]]

load_positions(positions) ==
  [k \in 1..Len(positions) |->
     [positions[k] EXCEPT !.profit_target = load_number(@)]]

\* the document save_state writes
StateDoc(L) ==
  [current_balance |-> L.current_balance,
   positions |-> dump_positions(L.positions),
   total_value |-> L.total_value, trade_count |-> L.trade_count,
   directional_bias |-> L.directional_bias]

\* state_file is << >> while no document was written, <<doc>> afterwards
save_state(L) == [L EXCEPT !.state_file = <<StateDoc(L)>>]

add_to_history_without_bias(L, trade) ==
  save_state([L EXCEPT !.trade_history = Append(L.trade_history, trade),
                       !.trade_count = Len(L.trade_history) + 1])

add_to_history(L, trade) ==
  LET h == Append(L.trade_history, trade)
      L1 == [L EXCEPT !.trade_history = h,
                      !.trade_count = Len(h),
                      !.directional_bias = update_directional_bias(L.directional_bias, trade)]
  IN save_state(L1)

NoInd ==
  [error |-> TRUE, price |-> 0, ema_20 |-> 0, rsi_14 |-> 0, volume |-> 0,
   avg_volume |-> 0, macd |-> 0, macd_signal |-> 0]

\* what a handler logs about one operation: for an entry the confidence it
\* was accepted with, the regime and the indicator snapshots it was
\* validated on and which validation branch it took; for a close the
\* fraction and the reason.
NoInfo ==
  [confidence |-> 0, regime |-> "NONE", ind3m |-> NoInd, ind4h |-> NoInd,
   signal |-> "none", branch |-> "none", partial_margin |-> FALSE,
   num |-> 0, den |-> 1, reason |-> NoReason]

Event(kind, symbol, before, after, pos, price, info) ==
  [kind |-> kind, symbol |-> symbol, bal_before |-> before, bal_after |-> after,
   pos |-> pos, price |-> price, info |-> info]

Log(L, ev) == [L EXCEPT !.events = Append(L.events, ev)]

PortfolioValue(balance, ps) ==
  balance + SumSeq([i \in 1..Len(ps) |-> ps[i].margin_usd + ps[i].unrealized_pnl])

\* update_prices: mark every position that has a valid price, count the
\* loss cycles when asked to, recompute total_value, save the state.
MarkPositionAlwaysCounts(pos, price, increment_loss_counters) ==
  LET pnl == Pnl(pos.direction, pos.entry_price, price, pos.quantity)
  IN [pos EXCEPT
        !.current_price = price,
        !.unrealized_pnl = pnl,
        !.loss_cycle_count = IF pnl <= 0 THEN pos.loss_cycle_count + 1 ELSE 0]

MarkPosition(pos, price, increment_loss_counters) ==
  LET pnl == Pnl(pos.direction, pos.entry_price, price, pos.quantity)
  IN [pos EXCEPT
        !.current_price = price,
        !.unrealized_pnl = pnl,
        !.loss_cycle_count =
           IF increment_loss_counters
           THEN (IF pnl <= 0 THEN pos.loss_cycle_count + 1 ELSE 0)
           ELSE pos.loss_cycle_count]

update_prices(L, new_prices, increment_loss_counters) ==
  LET ps == [i \in 1..Len(L.positions) |->
               LET pos == L.positions[i]
               IN IF new_prices[pos.symbol] > 0
                  THEN MarkPosition(pos, new_prices[pos.symbol], increment_loss_counters)
                  ELSE pos]
      L1 == [L EXCEPT !.positions = ps,
                      !.total_value = PortfolioValue(L.current_balance, ps)]
  IN save_state(L1)

\* ------------------------------------------------------------------------
\* check_and_execute_tp_sl: one pass over a snapshot of the positions
\* ------------------------------------------------------------------------
CloseTrade(pos, price, qty, notional, pnl, reason) ==
  [symbol |-> pos.symbol, direction |-> pos.direction,
   entry_price |-> pos.entry_price, exit_price |-> price,
   quantity |-> qty, notional_usd |-> notional, pnl |-> pnl,
   leverage |-> pos.leverage, close_reason |-> reason]

RemainingAfterStale(x, d) == x

\* x * (1 - close_percent)
RemainingAfter(x, d) == MulDiv(x, d.den - d.num, d.den)

\* the partial_close branch (quantity, margin and notional shrink, the
\* closed share of the margin and its pnl go to the cash, one trade record)
PartialClose(L, pos, price, d) ==
  LET close_quantity == MulDiv(pos.quantity, d.num, d.den)
      profit == Pnl(pos.direction, pos.entry_price, price, close_quantity)
      newpos == [pos EXCEPT
                   !.quantity = RemainingAfter(pos.quantity, d),
                   !.margin_usd = RemainingAfter(pos.margin_usd, d),
                   !.notional_usd = RemainingAfter(pos.notional_usd, d)]
      credit == MulDiv(pos.margin_usd, d.num, d.den) + profit
      L1 == [L EXCEPT !.positions = SetPos(L.positions, newpos),
                      !.current_balance = L.current_balance + credit]
      trade == CloseTrade(pos, price, close_quantity,
                          MulDiv(newpos.notional_usd, d.num, d.den), profit, d.reason)
      L2 == add_to_history(L1, trade)
  IN Log(L2, Event("partial_close", pos.symbol, L.current_balance,
                   L2.current_balance, pos, price,
                   [NoInfo EXCEPT !.num = d.num, !.den = d.den, !.reason = d.reason]))

CloseCreditProfitOnly(margin_used, profit) == profit

\* self.current_balance += (margin_used + profit)
CloseCredit(margin_used, profit) == margin_used + profit

\* the "Execute Close if triggered" branch
FullClose(L, pos, price, reason, kind) ==
  LET profit == Pnl(pos.direction, pos.entry_price, price, pos.quantity)
      L1 == [L EXCEPT !.current_balance =
                L.current_balance + CloseCredit(pos.margin_usd, profit)]
      trade == CloseTrade(pos, price, pos.quantity, pos.notional_usd, profit, reason)
      L2 == add_to_history(L1, trade)
      L3 == [L2 EXCEPT !.positions = DelPos(L2.positions, pos.symbol)]
  IN Log(L3, Event(kind, pos.symbol, L.current_balance, L3.current_balance,
                   pos, price, [NoInfo EXCEPT !.reason = reason]))

HardReasonStopOnly(pos, price) ==
  IF pos.stop_loss # 0 /\ ((pos.direction = "long" /\ price <= pos.stop_loss)
                           \/ (pos.direction = "short" /\ price >= pos.stop_loss))
  THEN [kind |-> "Stop Loss hit", n |-> pos.stop_loss]
  ELSE [kind |-> "none", n |-> 0]

\* the static TP / SL comparison that follows the enhanced strategy
HardReason(pos, price) ==
  LET tp == pos.profit_target
      sl == pos.stop_loss
  IN IF tp # 0 /\ tp # NaN
        /\ ((pos.direction = "long" /\ price >= tp)
                   \/ (pos.direction = "short" /\ price <= tp))
     THEN [kind |-> "Profit Target hit", n |-> tp]
     ELSE IF sl # 0 /\ ((pos.direction = "long" /\ price <= sl)
                        \/ (pos.direction = "short" /\ price >= sl))
     THEN [kind |-> "Stop Loss hit", n |-> sl]
     ELSE NoReason

\* one iteration of the loop, for the position of `coin`
CheckOne(L, coin, current_prices) ==
  IF ~HasPos(L.positions, coin) \/ current_prices[coin] <= 0
  THEN L
  ELSE
    LET pos == PosOf(L.positions, coin)
        price == current_prices[coin]
        d == enhanced_exit_strategy(pos, price, L.current_balance)
    IN IF d.action = "close_position"
       THEN FullClose(L, pos, price, d.reason, "auto_close")
       ELSE IF d.action = "partial_close"
       THEN PartialClose(L, pos, price, d)
       ELSE IF d.action = "update_stop"
       THEN Log([L EXCEPT !.positions =
                    SetPos(L.positions, [pos EXCEPT !.stop_loss = d.new_stop])],
                Event("update_stop", coin, L.current_balance, L.current_balance,
                      pos, price, [NoInfo EXCEPT !.reason = d.reason]))
       ELSE IF HardReason(pos, price) # NoReason
       THEN FullClose(L, pos, price, HardReason(pos, price), "auto_close")
       ELSE Log(L, Event("checked_hold", coin, L.current_balance,
                         L.current_balance, pos, price, NoInfo))

RECURSIVE CheckLoop(_, _, _)
CheckLoop(L, snapshot, current_prices) ==
  IF snapshot = << >> THEN L
  ELSE CheckLoop(CheckOne(L, Head(snapshot), current_prices), Tail(snapshot),
                 current_prices)

StateChangingKinds == {"auto_close", "partial_close", "update_stop"}

check_and_execute_tp_sl(L, current_prices) ==
  LET snapshot == [i \in 1..Len(L.positions) |-> L.positions[i].symbol]
      L1 == CheckLoop(L, snapshot, current_prices)
      state_changed == \E i \in 1..Len(L1.events) :
                          L1.events[i].kind \in StateChangingKinds
  IN IF state_changed THEN save_state(L1) ELSE L1

\* the value check_and_execute_tp_sl returns: some position was closed
ClosedAny(L) == \E i \in 1..Len(L.events) : L.events[i].kind = "auto_close"

\* ------------------------------------------------------------------------
\* Decision validator (pure functions of the indicator snapshots)
\* An indicator snapshot is [error, price, ema_20, rsi_14, volume,
\* avg_volume, macd, macd_signal]; get_technical_indicators returns either
\* all numbers or an 'error' entry.
\* ------------------------------------------------------------------------
Side(signal) == IF signal = "buy_to_enter" THEN "long" ELSE "short"

\* volume / avg_volume as a pair, 0 when avg_volume is not positive
VolumeRatioAtLeast(ind, num, den) ==
  IF ind.avg_volume > 0 THEN ind.volume * den >= num * ind.avg_volume ELSE 0 >= num

VolumeRatioAbove(ind, num, den) ==
  IF ind.avg_volume > 0 THEN ind.volume * den > num * ind.avg_volume ELSE FALSE

calculate_volume_quality_score(ind) ==
  IF ind.error \/ ind.avg_volume <= 0 THEN 0
  ELSE IF VolumeRatioAtLeast(ind, 25, 10) THEN 90
  ELSE IF VolumeRatioAtLeast(ind, 18, 10) THEN 75
  ELSE IF VolumeRatioAtLeast(ind, 12, 10) THEN 60
  ELSE IF VolumeRatioAtLeast(ind, 7, 10) THEN 40
  ELSE 20

\* counts of coins whose 4h price is above / below / within the band of EMA20
detect_market_regime_overall(counts) ==
  IF counts.bullish >= 4 THEN "BULLISH"
  ELSE IF counts.bearish >= 4 THEN "BEARISH"
  ELSE IF counts.neutral >= 4 THEN "NEUTRAL"
  ELSE IF counts.bullish > counts.bearish
  THEN (IF counts.bullish >= 3 THEN "BULLISH" ELSE "NEUTRAL")
  ELSE IF counts.bearish > counts.bullish
  THEN (IF counts.bearish >= 3 THEN "BEARISH" ELSE "NEUTRAL")
  ELSE "NEUTRAL"

\* Config.MARKET_REGIME_MULTIPLIERS, in tenths
MarketRegimeMultiplier(regime) ==
  IF regime = "BULLISH" THEN 10 ELSE IF regime = "BEARISH" THEN 8 ELSE 9

count_positions_by_direction(ps, direction) ==
  Cardinality({i \in 1..Len(ps) : ps[i].direction = direction})

\* trend classification with the neutral band and the intraday downgrade
ClassifyTrend(ind4h, ind3m) ==
  LET d == ind4h.price - ind4h.ema_20
      base == IF Abs(d) * 10000 <= EMA_NEUTRAL_BAND_PCT * ind4h.ema_20 THEN "neutral"
              ELSE IF d > 0 THEN "bullish" ELSE "bearish"
      intraday == IF ind3m.price >= ind3m.ema_20 THEN "bullish" ELSE "bearish"
  IN IF ind3m.error THEN base
     ELSE IF base = "bearish" /\ intraday = "bullish"
             /\ ind3m.rsi_14 >= INTRADAY_NEUTRAL_RSI_HIGH THEN "neutral"
     ELSE IF base = "bullish" /\ intraday = "bearish"
             /\ ind3m.rsi_14 <= INTRADAY_NEUTRAL_RSI_LOW THEN "neutral"
     ELSE base

\* trend_state maps a coin to [trend, last_flip_cycle, last_seen_cycle];
\* a coin never seen has trend "none".
NoTrendRecord == [trend |-> "none", last_flip_cycle |-> 0, last_seen_cycle |-> 0]

update_trend_state(ts, coin, ind4h, ind3m, cycle) ==
  IF ind4h.ema_20 = 0
  THEN [trend_state |-> ts, trend |-> "unknown", recent_flip |-> FALSE,
        last_flip_cycle |-> 0]
  ELSE
    LET current_trend == ClassifyTrend(ind4h, ind3m)
        record == IF ts[coin].trend = "none"
                  THEN [trend |-> current_trend, last_flip_cycle |-> cycle,
                        last_seen_cycle |-> 0]
                  ELSE ts[coin]
        flipped == record.trend # current_trend
        rec1 == IF flipped
                THEN [record EXCEPT
                        !.trend = current_trend,
                        !.last_flip_cycle =
                           IF current_trend # "neutral" THEN cycle
                           ELSE record.last_flip_cycle]
                ELSE record
        recent_flip ==
          IF flipped THEN current_trend # "neutral"
          ELSE current_trend # "neutral"
               /\ cycle - record.last_flip_cycle <= trend_flip_cooldown
        rec2 == [rec1 EXCEPT !.last_seen_cycle = cycle]
    IN [trend_state |-> [ts EXCEPT ![coin] = rec2], trend |-> current_trend,
        recent_flip |-> recent_flip, last_flip_cycle |-> rec2.last_flip_cycle]

\* Returns [raised, confidence]; raised = the Config attribute it reads
\* does not exist (AttributeError).
apply_directional_bias(signal, confidence, bias_metrics, current_trend) ==
  LET side == Side(signal)
      stats == bias_metrics[side]
      c1 == IF stats.consecutive_losses >= 3 THEN (confidence * 90) \div 100
            ELSE confidence
      is_aligned == (current_trend = "bullish" /\ side = "long")
                    \/ (current_trend = "bearish" /\ side = "short")
      tail(c) == IF stats.rolling_sum < 0 THEN (c * 93) \div 100 ELSE c
  IN IF current_trend = "neutral"
     THEN IF ConfigHasNeutralConfidenceModifier
          THEN [raised |-> FALSE, confidence |-> tail((c1 * 90) \div 100)]
          ELSE [raised |-> TRUE, confidence |-> confidence]
     ELSE IF is_aligned /\ stats.rolling_sum > 0
     THEN [raised |-> FALSE, confidence |-> tail(Min(ConfOne, (c1 * 105) \div 100))]
     ELSE IF ~is_aligned /\ current_trend \in {"bullish", "bearish"}
     THEN IF ConfigHasConflictConfidenceModifier
          THEN [raised |-> FALSE, confidence |-> tail((c1 * 90) \div 100)]
          ELSE [raised |-> TRUE, confidence |-> confidence]
     ELSE [raised |-> FALSE, confidence |-> tail(c1)]

is_counter_trend_trade(signal, ind3m, ind4h) ==
  IF ind3m.error \/ ind4h.error THEN FALSE
  ELSE LET trend_4h == IF ind4h.price > ind4h.ema_20 THEN "BULLISH" ELSE "BEARISH"
       IN (signal = "buy_to_enter" /\ trend_4h = "BEARISH")
          \/ (signal = "sell_to_enter" /\ trend_4h = "BULLISH")

\* number of the five counter-trend conditions that hold
CounterConditions(signal, ind3m) ==
  LET b(x) == IF x THEN 1 ELSE 0
  IN b((signal = "buy_to_enter" /\ ind3m.price > ind3m.ema_20)
        \/ (signal = "sell_to_enter" /\ ind3m.price < ind3m.ema_20))
     + b(VolumeRatioAbove(ind3m, 15, 10))
     + b((signal = "buy_to_enter" /\ ind3m.rsi_14 < 25)
          \/ (signal = "sell_to_enter" /\ ind3m.rsi_14 > 75))
     + b(ind3m.price # 0 /\ Abs(ind3m.price - ind3m.ema_20) * 100 < ind3m.price)
     + b((signal = "buy_to_enter" /\ ind3m.macd > ind3m.macd_signal)
          \/ (signal = "sell_to_enter" /\ ind3m.macd < ind3m.macd_signal))

validate_counter_trade(signal, ind3m, ind4h) ==
  IF ind3m.error \/ ind4h.error THEN FALSE
  ELSE CounterConditions(signal, ind3m) >= 3

\* ------------------------------------------------------------------------
\* AdvancedRiskManager (backtest.py)
\* ------------------------------------------------------------------------
TotalMargin(ps) == SumSeq([i \in 1..Len(ps) |-> ps[i].margin_usd])

TotalNotional(ps) == SumSeq([i \in 1..Len(ps) |-> ps[i].notional_usd])

check_portfolio_diversification(ps) ==
  IF Len(ps) = 0 \/ TotalNotional(ps) <= 0 THEN TRUE
  ELSE LET total_margin == TotalMargin(ps)
           dynamic_total_balance == (RiskTotalBalance - total_margin) + total_margin
       IN IF dynamic_total_balance <= 0 THEN TRUE
          ELSE IF \E i \in 1..Len(ps) :
                    ps[i].margin_usd * 100 > max_concentration * dynamic_total_balance
          THEN FALSE
          ELSE Len(ps) < max_positions

\* notional-weighted relative distance of the prices from the entries, in
\* basis points
calculate_portfolio_risk(ps, current_prices) ==
  IF Len(ps) = 0 \/ TotalNotional(ps) <= 0 THEN 0
  ELSE SumSeq([i \in 1..Len(ps) |->
                 IF current_prices[ps[i].symbol] > 0
                 THEN ((Abs(current_prices[ps[i].symbol] - ps[i].entry_price) * ConfOne)
                         \div ps[i].entry_price) * ps[i].notional_usd
                 ELSE 0]) \div TotalNotional(ps)

should_enter_trade(ps, current_prices, proposed_notional, current_balance) ==
  IF ~check_portfolio_diversification(ps) THEN FALSE
  ELSE IF calculate_portfolio_risk(ps, current_prices) > max_portfolio_risk THEN FALSE
  ELSE IF TotalMargin(ps) * 10 + proposed_notional > current_balance * 9 THEN FALSE
  ELSE IF proposed_notional * 4 > current_balance * 10 THEN FALSE
  ELSE TRUE

\* ------------------------------------------------------------------------
\* execute_decision, one (coin, trade) of the loop.  A trade is
\* [coin, signal, confidence, leverage, profit_target, stop_loss]; the
\* market view `mv` holds what the handler fetches while it runs:
\* vq_ind (3m indicators read by calculate_volume_quality_score), counts
\* (the 4h classification of all coins read by detect_market_regime_overall)
\* and ind3m / ind4h read by the counter-trend detection.
\* ------------------------------------------------------------------------
ClampLeverage(leverage, max_leverage) ==
  LET l0 == IF leverage = 0 THEN 8 ELSE leverage
      l1 == IF l0 < 1 THEN 1 ELSE l0
      l2 == IF l1 > max_leverage THEN max_leverage ELSE l1
  IN IF l2 < 8 THEN 8 ELSE IF l2 > 10 THEN 10 ELSE l2

\* Config.COIN_SPECIFIC_STOP_LOSS_MULTIPLIERS, in percent (default 1.0)
StopLossMultiplier(coin) == 100

AdjustStopLoss(signal, coin, current_price, stop_loss) ==
  IF stop_loss = 0 THEN 0
  ELSE IF signal = "buy_to_enter"
  THEN current_price - ((current_price - stop_loss) * StopLossMultiplier(coin)) \div 100
  ELSE current_price + ((stop_loss - current_price) * StopLossMultiplier(coin)) \div 100

\* available_cash * 0.40 * confidence, floored to the cent; the product is
\* taken on the quotient and the remainder by 25000 to stay within 32 bits
calculate_confidence_based_margin(confidence, available_cash) ==
  LET unit == (10 * ConfOne) \div 4
      raw == (available_cash \div unit) * confidence
             + ((available_cash % unit) * confidence) \div unit
  IN Max(raw, MIN_POSITION_MARGIN_USD)

\* The try block of the counter-trend detection.  Returns
\*   [outcome, confidence, partial_margin, trend_state, trend, branch]
\* outcome "skip" = a `continue` inside the block, "go" = fall through to
\* the sizing (also after the except clause, with the confidence it had when
\* the exception was raised).
DetectionResult(outcome, c, partial, ts, trend, branch) ==
  [outcome |-> outcome, confidence |-> c, partial_margin |-> partial,
   trend_state |-> ts, trend |-> trend, branch |-> branch]

\* the block from the counter-trend test on: c1 is the confidence before
\* apply_directional_bias, ti the result of update_trend_state, b the result
\* of apply_directional_bias
DetectionGate(signal, ind3m, ind4h, c1, ti, b) ==
  LET trend_aligned ==
        (signal = "buy_to_enter" /\ ind4h.price >= ind4h.ema_20
           /\ ind3m.price >= ind3m.ema_20)
        \/ (signal = "sell_to_enter" /\ ind4h.price <= ind4h.ema_20
              /\ ind3m.price <= ind3m.ema_20)
      supported == trend_aligned /\ VolumeRatioAtLeast(ind3m, 5, 10)
  IN IF b.raised
     THEN DetectionResult("go", c1, FALSE, ti.trend_state, ti.trend, "detection_failed")
     ELSE IF is_counter_trend_trade(signal, ind3m, ind4h)
     THEN IF b.confidence < counter_confidence_floor
          THEN DetectionResult("skip", b.confidence, FALSE, ti.trend_state, ti.trend,
                               "counter_floor")
          ELSE IF ti.recent_flip
          THEN DetectionResult("skip", b.confidence, FALSE, ti.trend_state, ti.trend,
                               "flip_guard")
          ELSE IF validate_counter_trade(signal, ind3m, ind4h)
          THEN DetectionResult("go", b.confidence, FALSE, ti.trend_state, ti.trend,
                               "counter_validated")
          ELSE DetectionResult("skip", b.confidence, FALSE, ti.trend_state, ti.trend,
                               "counter_weak")
     ELSE IF supported
     THEN DetectionResult("go", Min(ConfOne, b.confidence + 500),
                          ~VolumeRatioAtLeast(ind3m, 8, 10),
                          ti.trend_state, ti.trend, "trend_following")
     ELSE DetectionResult("go", b.confidence, FALSE, ti.trend_state, ti.trend,
                          "trend_following")

DetectionBias(signal, ind3m, ind4h, c1, bias_metrics, ti) ==
  DetectionGate(signal, ind3m, ind4h, c1, ti,
                apply_directional_bias(signal, c1, bias_metrics, ti.trend))

DetectionTrend(pm, coin, signal, c1, mv) ==
  DetectionBias(signal, mv.ind3m, mv.ind4h, c1, pm.latest_bias_metrics,
                update_trend_state(pm.trend_state, coin, mv.ind4h, mv.ind3m,
                                   pm.current_cycle_number))

Detection(pm, coin, signal, confidence, mv) ==
  IF mv.ind3m.error \/ mv.ind4h.error
  THEN DetectionResult("skip", confidence, FALSE, pm.trend_state, "unknown",
                       "indicator_error")
  ELSE IF VolumeRatioAtLeast(mv.ind3m, 3, 10)
  THEN DetectionTrend(pm, coin, signal, confidence, mv)
  ELSE IF (confidence * 7) \div 10 < MIN_CONFIDENCE
  THEN DetectionResult("skip", (confidence * 7) \div 10, FALSE, pm.trend_state,
                       "unknown", "low_volume_block")
  ELSE DetectionTrend(pm, coin, signal, (confidence * 7) \div 10, mv)

EntrySignals == {"buy_to_enter", "sell_to_enter"}

\* placeholder of self.positions.get(coin) returning None
NoPos ==
  [symbol |-> "none", direction |-> "none", quantity |-> 0, entry_price |-> 0,
   current_price |-> 0, unrealized_pnl |-> 0, notional_usd |-> 0,
   margin_usd |-> 0, leverage |-> 0, confidence |-> 0, profit_target |-> 0,
   stop_loss |-> 0, loss_cycle_count |-> 0, entry_cycle |-> 0]

DecisionInfo(trade, branch) ==
  [NoInfo EXCEPT !.signal = trade.signal, !.branch = branch]

Skipped(pm, trade, price, branch) ==
  Log(pm, Event("skipped", trade.coin, pm.current_balance, pm.current_balance,
                IF HasPos(pm.positions, trade.coin)
                THEN PosOf(pm.positions, trade.coin) ELSE NoPos,
                price, DecisionInfo(trade, branch)))

\* the margin of an entry: the confidence-based margin, scaled by the market
\* regime, halved on weak volume, never below the minimum
EntryMargin(det, regime, balance) ==
  LET m1 == (calculate_confidence_based_margin(det.confidence, balance)
             * MarketRegimeMultiplier(regime)) \div 10
  IN IF det.partial_margin
     THEN Max(Max(m1 \div 2, MIN_POSITION_MARGIN_USD), MIN_POSITION_MARGIN_USD)
     ELSE Max(m1, MIN_POSITION_MARGIN_USD)

NewPosition(pm, trade, current_price, leverage, stop_loss, det, notional_usd) ==
  [symbol |-> trade.coin, direction |-> Side(trade.signal),
   quantity |-> (notional_usd * QtyScale) \div current_price,
   entry_price |-> current_price, current_price |-> current_price,
   unrealized_pnl |-> 0, notional_usd |-> notional_usd,
   margin_usd |-> notional_usd \div leverage, leverage |-> leverage,
   confidence |-> det.confidence, profit_target |-> trade.profit_target,
   stop_loss |-> stop_loss, loss_cycle_count |-> 0,
   entry_cycle |-> pm.current_cycle_number]

BookEntryNotional(pm, trade, current_price, regime, det, position) ==
  Log([pm EXCEPT !.current_balance = pm.current_balance - position.notional_usd,
                 !.positions = SetPos(pm.positions, position)],
      Event("entry", trade.coin, pm.current_balance,
            pm.current_balance - position.notional_usd, position, current_price,
            [NoInfo EXCEPT !.signal = trade.signal]))

\* self.current_balance -= margin_usd and the new position
BookEntry(pm, trade, current_price, regime, det, position) ==
  Log([pm EXCEPT !.current_balance = pm.current_balance - position.margin_usd,
                 !.positions = SetPos(pm.positions, position)],
      Event("entry", trade.coin, pm.current_balance,
            pm.current_balance - position.margin_usd, position, current_price,
            [NoInfo EXCEPT !.signal = trade.signal,
                           !.confidence = det.confidence,
                           !.regime = regime,
                           !.ind3m = det.ind3m, !.ind4h = det.ind4h,
                           !.branch = det.branch,
                           !.partial_margin = det.partial_margin]))

\* min_available_cash = self.current_balance * 0.10 and its test
BelowCashFloor(current_balance, calculated_margin) ==
  (current_balance - calculated_margin) * 100
    < current_balance * MinAvailableCashPct

\* the cash floor, the risk gate and the booking of an entry of margin
\* calculated_margin
OpenPosition(pm, trade, current_prices, leverage, regime, stop_loss, det, calculated_margin) ==
  IF BelowCashFloor(pm.current_balance, calculated_margin)
  THEN Skipped(pm, trade, current_prices[trade.coin], "cash_floor")
  ELSE IF ~should_enter_trade(pm.positions, current_prices,
                              calculated_margin * leverage, pm.current_balance)
  THEN Skipped(pm, trade, current_prices[trade.coin], "risk_manager")
  ELSE IF (calculated_margin * leverage) \div leverage <= 0
          \/ (calculated_margin * leverage) \div leverage > pm.current_balance
  THEN Skipped(pm, trade, current_prices[trade.coin], "no_cash")
  ELSE BookEntry(pm, trade, current_prices[trade.coin], regime, det,
                 NewPosition(pm, trade, current_prices[trade.coin], leverage,
                             stop_loss, det, calculated_margin * leverage))

\* the sizing of an entry whose detection outcome is `det`, then the gates
SizeAndOpen(pm, trade, current_prices, leverage, regime, stop_loss, det) ==
  OpenPosition(pm, trade, current_prices, leverage, regime, stop_loss, det,
               EntryMargin(det, regime, pm.current_balance))

AlreadyOpenIgnored(positions, coin) == FALSE

\* position = self.positions.get(coin); if position: ... continue
AlreadyOpen(positions, coin) == HasPos(positions, coin)

EntryConfidence(trade, mv) ==
  Min(ConfOne,
      (IF trade.confidence < 0 \/ trade.confidence > ConfOne
       THEN 5000 ELSE trade.confidence)
      + calculate_volume_quality_score(mv.vq_ind) * 10)

DominantDirection(market_regime) ==
  IF market_regime = "BULLISH" THEN "long"
  ELSE IF market_regime = "BEARISH" THEN "short"
  ELSE "none"

\* the part of an entry after the detection block returned det0
EntryAfterDetection(pm, trade, current_prices, mv, market_regime, det0) ==
  IF det0.outcome = "skip"
  THEN Skipped(pm, trade, current_prices[trade.coin], det0.branch)
  ELSE SizeAndOpen(pm, trade, current_prices, ClampLeverage(trade.leverage, mv.max_leverage),
                   market_regime,
                   AdjustStopLoss(trade.signal, trade.coin,
                                  current_prices[trade.coin], trade.stop_loss),
                   [outcome |-> det0.outcome, confidence |-> det0.confidence,
                    partial_margin |-> det0.partial_margin,
                    trend_state |-> det0.trend_state, trend |-> det0.trend,
                    branch |-> det0.branch, ind3m |-> mv.ind3m, ind4h |-> mv.ind4h])

\* the part of an entry after the regime was detected
EntryInRegime(pm, trade, current_prices, mv, market_regime) ==
  IF Side(trade.signal) = DominantDirection(market_regime)
     /\ count_positions_by_direction(pm.positions, Side(trade.signal))
          >= SameDirectionLimit
  THEN Skipped(pm, trade, current_prices[trade.coin], "same_direction_limit")
  ELSE EntryAfterDetection(
         [pm EXCEPT !.trend_state =
            Detection(pm, trade.coin, trade.signal, EntryConfidence(trade, mv),
                      mv).trend_state],
         trade, current_prices, mv, market_regime,
         Detection(pm, trade.coin, trade.signal, EntryConfidence(trade, mv), mv))

ExecuteEntry(pm, trade, current_prices, mv) ==
  IF AlreadyOpen(pm.positions, trade.coin)
  THEN Skipped(pm, trade, current_prices[trade.coin], "position_open")
  ELSE EntryInRegime(pm, trade, current_prices, mv,
                     detect_market_regime_overall(mv.counts))

\* the close_position branch of execute_decision
ExecuteClose(pm, trade, current_prices) ==
  IF ~HasPos(pm.positions, trade.coin)
  THEN Skipped(pm, trade, current_prices[trade.coin], "no_position")
  ELSE LET pos == PosOf(pm.positions, trade.coin)
           L == FullClose(pm, pos, current_prices[trade.coin],
                          [kind |-> "AI Decision", n |-> 0], "decision_close")
       IN [L EXCEPT !.events =
             [i \in 1..Len(L.events) |->
                IF i = Len(L.events)
                THEN [L.events[i] EXCEPT !.info.signal = trade.signal]
                ELSE L.events[i]]]

\* one iteration of the loop of execute_decision
ExecuteTrade(pm, trade, current_prices, mv) ==
  IF current_prices[trade.coin] <= 0
  THEN Skipped(pm, trade, 0, "invalid_price")
  ELSE IF trade.signal \in EntrySignals
  THEN ExecuteEntry(pm, trade, current_prices, mv)
  ELSE IF trade.signal = "close_position"
  THEN ExecuteClose(pm, trade, current_prices)
  ELSE Skipped(pm, trade, current_prices[trade.coin], "hold")

\* ------------------------------------------------------------------------
\* run_trading_cycle: shaping of the decisions before they are executed
\* ------------------------------------------------------------------------
\* an entry booked as the document states it, a close applied as it is
ExecuteOverrideDirect(pm, trade, current_prices, mv) ==
  IF current_prices[trade.coin] > 0 /\ trade.signal \in EntrySignals
     /\ ~HasPos(pm.positions, trade.coin)
  THEN BookEntry(pm, trade, current_prices[trade.coin],
                 detect_market_regime_overall(mv.counts),
                 [confidence |-> trade.confidence, partial_margin |-> FALSE,
                  branch |-> "none", ind3m |-> mv.ind3m, ind4h |-> mv.ind4h],
                 NewPosition(pm, trade, current_prices[trade.coin],
                             trade.leverage, trade.stop_loss,
                             [confidence |-> trade.confidence],
                             MIN_POSITION_MARGIN_USD * trade.leverage))
  ELSE ExecuteTrade(pm, trade, current_prices, mv)

\* self.portfolio.execute_decision(decisions, valid_prices) of the override
ExecuteOverride(pm, trade, current_prices, mv) ==
  ExecuteTrade(pm, trade, current_prices, mv)

get_max_positions_for_cycle(cycle_number) ==
  IF cycle_number \in 1..4 THEN cycle_number ELSE 5

\* "POSITION LIMIT REACHED": entry signals are turned into hold
RewriteToHold(decisions) ==
  [i \in 1..Len(decisions) |->
     IF decisions[i].signal \in EntrySignals
     THEN [decisions[i] EXCEPT !.signal = "hold"] ELSE decisions[i]]

\* the loop shared by _execute_normal_decisions (keep_others = TRUE) and
\* _execute_new_positions_only (keep_others = FALSE)
RECURSIVE RampFilter(_, _, _, _)
RampFilter(decisions, current_positions, max_positions_for_cycle, keep_others) ==
  IF decisions = << >> THEN << >>
  ELSE LET trade == Head(decisions)
       IN IF trade.signal \in EntrySignals
          THEN IF current_positions >= max_positions_for_cycle
               THEN RampFilter(Tail(decisions), current_positions,
                               max_positions_for_cycle, keep_others)
               ELSE <<trade>> \o RampFilter(Tail(decisions), current_positions + 1,
                                            max_positions_for_cycle, keep_others)
          ELSE IF keep_others
          THEN <<trade>> \o RampFilter(Tail(decisions), current_positions,
                                       max_positions_for_cycle, keep_others)
          ELSE RampFilter(Tail(decisions), current_positions,
                          max_positions_for_cycle, keep_others)

has_close_position_signal_never(decisions) == FALSE

has_close_position_signal(decisions) ==
  \E i \in 1..Len(decisions) : decisions[i].signal = "close_position"

\* the close-first loop of run_trading_cycle ("AI close_position signal")
RECURSIVE AiCloseLoop(_, _, _)
AiCloseLoop(pm, decisions, valid_prices) ==
  IF decisions = << >> THEN pm
  ELSE LET trade == Head(decisions)
           hit == trade.signal = "close_position"
                  /\ HasPos(pm.positions, trade.coin)
                  /\ valid_prices[trade.coin] > 0
           pm1 == IF hit
                  THEN FullClose(pm, PosOf(pm.positions, trade.coin),
                                 valid_prices[trade.coin],
                                 [kind |-> "AI close_position signal", n |-> 0],
                                 "ai_close")
                  ELSE pm
       IN AiCloseLoop(pm1, Tail(decisions), valid_prices)

Trade(coin, signal, confidence, leverage, profit_target, stop_loss) ==
  [coin |-> coin, signal |-> signal, confidence |-> confidence,
   leverage |-> leverage, profit_target |-> profit_target,
   stop_loss |-> stop_loss]

\* ------------------------------------------------------------------------
\* DeepSeekAPI.get_ai_decision and the parsing of its answer.  An outcome of
\* the HTTP call is a reply (exc = "none") or an exception; of the text of
\* an exception only the presence of the two words _get_error_response
\* looks for is kept.  A response text is the JSON block it carries and
\* whether that block can be decoded.
\* ------------------------------------------------------------------------
Reply(answer) ==
  [exc |-> "none", cause |-> "none", connection_word |-> FALSE,
   timeout_word |-> FALSE, json_ok |-> TRUE, decisions |-> answer]

\* a reply without a decodable JSON block
Garbled ==
  [exc |-> "none", cause |-> "none", connection_word |-> FALSE,
   timeout_word |-> FALSE, json_ok |-> FALSE, decisions |-> << >>]

Failure(exc, cause, connection_word, timeout_word) ==
  [exc |-> exc, cause |-> cause, connection_word |-> connection_word,
   timeout_word |-> timeout_word, json_ok |-> FALSE, decisions |-> << >>]

NoOutcome == Failure("none", "not_called", FALSE, FALSE)

get_safe_hold_decisions ==
  [i \in 1..Len(available_coins) |->
     Trade(available_coins[i], "hold", 0, 0, 0, 0)]

HasEntrySignal(decisions) ==
  \E i \in 1..Len(decisions) : decisions[i].signal \in EntrySignals

\* for cycle in reversed(...): the first record with an entry signal
RECURSIVE LatestWithEntry(_)
LatestWithEntry(cycles) ==
  IF cycles = << >> THEN get_safe_hold_decisions
  ELSE IF HasEntrySignal(cycles[Len(cycles)].decisions)
  THEN cycles[Len(cycles)].decisions
  ELSE LatestWithEntry(SubSeq(cycles, 1, Len(cycles) - 1))

LastCycles(cached_cycles, n) ==
  SubSeq(cached_cycles,
         IF Len(cached_cycles) > n THEN Len(cached_cycles) - n + 1 ELSE 1,
         Len(cached_cycles))

get_cached_decisions_all(cached_cycles) == LatestWithEntry(cached_cycles)

get_cached_decisions(cached_cycles) ==
  LatestWithEntry(LastCycles(cached_cycles, CachedCycles))

\* the words of the text handed to _get_error_response; the prefixes
\* "API Request Failed: " and "General API Error: " hold neither word
ErrorMessage(outcome) ==
  IF outcome.exc = "Timeout"
  THEN [connection_word |-> FALSE, timeout_word |-> TRUE]
  ELSE [connection_word |-> outcome.connection_word,
        timeout_word |-> outcome.timeout_word]

get_error_response(error_message, cached_cycles) ==
  IF error_message.connection_word \/ error_message.timeout_word
  THEN get_cached_decisions(cached_cycles)
  ELSE get_safe_hold_decisions

get_ai_decision(outcome, cached_cycles) ==
  IF outcome.exc = "none"
  THEN [json_ok |-> outcome.json_ok, decisions |-> outcome.decisions]
  ELSE [json_ok |-> TRUE,
        decisions |-> get_error_response(ErrorMessage(outcome), cached_cycles)]

clean_ai_decisions(decisions, positions) ==
  [i \in 1..Len(decisions) |->
     IF decisions[i].signal # "hold" THEN decisions[i]
     ELSE IF HasPos(positions, decisions[i].coin)
     THEN LET position == PosOf(positions, decisions[i].coin)
          IN Trade(decisions[i].coin, "hold", position.confidence,
                   position.leverage, position.profit_target,
                   position.stop_loss)
     ELSE Trade(decisions[i].coin, "hold", 0, 0, 0, 0)]

parse_ai_response(response, positions) ==
  IF response.json_ok THEN clean_ai_decisions(response.decisions, positions)
  ELSE << >>

AskAIAfterExit(manual_override, positions_closed_by_tp_sl) == ~manual_override

\* "Only ask AI if no TP/SL triggered AND no manual override"
AskAI(manual_override, positions_closed_by_tp_sl) ==
  ~manual_override /\ ~positions_closed_by_tp_sl

add_to_cycle_history(pm, cycle_number, status, decisions) ==
  LET h == Append(pm.cycle_history,
                  [cycle |-> cycle_number, status |-> status,
                   decisions |-> decisions])
  IN [pm EXCEPT !.cycle_history =
        IF Len(h) > max_cycle_history
        THEN SubSeq(h, Len(h) - max_cycle_history + 1, Len(h)) ELSE h]

\* ------------------------------------------------------------------------
\* The surroundings of a run: what the exchange, the model (AI) and the
\* operator can deliver.  `market` is fixed when the run starts.
\* ------------------------------------------------------------------------
Ind(price, ema_20, rsi_14, volume, avg_volume, macd, macd_signal) ==
  [error |-> FALSE, price |-> price, ema_20 |-> ema_20, rsi_14 |-> rsi_14,
   volume |-> volume, avg_volume |-> avg_volume, macd |-> macd,
   macd_signal |-> macd_signal]

\* get_all_real_prices: one quote per coin, 0 when the fetch failed
Quote(coin, price) == [c \in Coins |-> IF c = coin THEN price ELSE 1000]

AllQuotes(price) == [c \in Coins |-> price]

\* price above EMA20 on both time frames, average volume
ViewBull ==
  [vq_ind |-> Ind(1005, 1000, 50, 10, 10, 1, 0),
   counts |-> [bullish |-> 5, bearish |-> 0, neutral |-> 1],
   ind3m |-> Ind(1005, 1000, 50, 10, 10, 1, 0),
   ind4h |-> Ind(1010, 1000, 50, 10, 10, 1, 0),
   max_leverage |-> MAX_LEVERAGE]

\* same coin view while the rest of the market is mixed
ViewMixed ==
  [vq_ind |-> Ind(1005, 1000, 50, 10, 10, 1, 0),
   counts |-> [bullish |-> 2, bearish |-> 2, neutral |-> 2],
   ind3m |-> Ind(1005, 1000, 50, 10, 10, 1, 0),
   ind4h |-> Ind(1010, 1000, 50, 10, 10, 1, 0),
   max_leverage |-> MAX_LEVERAGE]

\* the four-hour price within the neutral band around its EMA20
ViewFlat ==
  [vq_ind |-> Ind(1005, 1000, 50, 10, 10, 1, 0),
   counts |-> [bullish |-> 5, bearish |-> 0, neutral |-> 1],
   ind3m |-> Ind(1005, 1000, 50, 10, 10, 1, 0),
   ind4h |-> Ind(1001, 1000, 50, 10, 10, 1, 0),
   max_leverage |-> MAX_LEVERAGE]

\* the four-hour price below its EMA20
ViewBear ==
  [vq_ind |-> Ind(1005, 1000, 50, 10, 10, 1, 0),
   counts |-> [bullish |-> 5, bearish |-> 0, neutral |-> 1],
   ind3m |-> Ind(995, 1000, 50, 10, 10, 1, 0),
   ind4h |-> Ind(990, 1000, 50, 10, 10, 1, 0),
   max_leverage |-> MAX_LEVERAGE]

\* the bullish view of a bot started with MAX_LEVERAGE=5 in its environment
ViewCapped ==
  [vq_ind |-> Ind(1005, 1000, 50, 10, 10, 1, 0),
   counts |-> [bullish |-> 5, bearish |-> 0, neutral |-> 1],
   ind3m |-> Ind(1005, 1000, 50, 10, 10, 1, 0),
   ind4h |-> Ind(1010, 1000, 50, 10, 10, 1, 0),
   max_leverage |-> 5]

\* the bullish view on a volume of 0.6 times its average
ViewThin ==
  [vq_ind |-> Ind(1005, 1000, 50, 6, 10, 1, 0),
   counts |-> [bullish |-> 5, bearish |-> 0, neutral |-> 1],
   ind3m |-> Ind(1005, 1000, 50, 6, 10, 1, 0),
   ind4h |-> Ind(1010, 1000, 50, 6, 10, 1, 0),
   max_leverage |-> MAX_LEVERAGE]

\* the indicator fetch fails
ViewError ==
  [vq_ind |-> NoInd, counts |-> [bullish |-> 0, bearish |-> 0, neutral |-> 0],
   ind3m |-> NoInd, ind4h |-> NoInd, max_leverage |-> MAX_LEVERAGE]

\* one coin, quotes within one percent of each other or missing, an
\* operator who may write one override
MarketMain ==
  [name |-> "main",
   prices |-> {AllQuotes(0), Quote("XRP", 1000), Quote("XRP", 1004),
               Quote("XRP", 1010)},
   views |-> {ViewBull, ViewError},
   ai |-> {<<Trade("XRP", "buy_to_enter", 5000, 10, 1004, 0)>>,
           <<Trade("XRP", "sell_to_enter", 5000, 10, 0, 0)>>,
           <<Trade("XRP", "close_position", 0, 0, 0, 0)>>},
   overrides |-> {<<Trade("XRP", "buy_to_enter", 5000, 10, 1010, 995)>>},
   force_close |-> {"XRP"},
   max_overrides |-> 1,
   failures |-> {},
   features |-> {},
   max_cycle |-> MaxCycleMain]

\* one coin whose quote halves or doubles between two fetches
MarketCrash ==
  [name |-> "crash",
   prices |-> {Quote("XRP", 1000), Quote("XRP", 500)},
   views |-> {ViewBull},
   ai |-> {<<Trade("XRP", "buy_to_enter", 5000, 10, 0, 0)>>},
   overrides |-> {},
   force_close |-> {},
   max_overrides |-> 0,
   failures |-> {},
   features |-> {},
   max_cycle |-> MaxCycleCrash]

\* five coins at a steady quote, low-confidence entries on all of them
FiveBuys ==
  [i \in 1..5 |-> Trade(available_coins[i], "buy_to_enter", 1000, 10, 0, 0)]

MarketRamp ==
  [name |-> "ramp",
   prices |-> {AllQuotes(1000)},
   views |-> {ViewBull, ViewMixed},
   ai |-> {FiveBuys},
   overrides |-> {FiveBuys},
   force_close |-> {},
   max_overrides |-> 1,
   failures |-> {},
   features |-> {},
   max_cycle |-> MaxCycleRamp]

\* one coin drifting around its entry for many cycles
MarketStall ==
  [name |-> "stall",
   prices |-> {Quote("XRP", 1000), Quote("XRP", 1002)},
   views |-> {ViewBull},
   ai |-> {<<Trade("XRP", "buy_to_enter", 5000, 10, 0, 0)>>},
   overrides |-> {},
   force_close |-> {},
   max_overrides |-> 0,
   failures |-> {},
   features |-> {},
   max_cycle |-> MaxCycleStall]

\* one coin climbing through the profit levels, entered with a large or
\* with a minimum margin and a stop below the entry
MarketTrail ==
  [name |-> "trail",
   prices |-> {Quote("XRP", 1000), Quote("XRP", 1006), Quote("XRP", 1010)},
   views |-> {ViewBull},
   ai |-> {<<Trade("XRP", "buy_to_enter", 5000, 10, 0, 990)>>,
           <<Trade("XRP", "buy_to_enter", 1000, 10, 0, 990)>>},
   overrides |-> {},
   force_close |-> {},
   max_overrides |-> 0,
   failures |-> {},
   features |-> {},
   max_cycle |-> MaxCycleTrail]

\* what requests.post and raise_for_status can raise: a timeout, a refused
\* connection ("HTTPSConnectionPool(...): Max retries exceeded"), a client
\* error ("401 Client Error: Unauthorized"), a gateway error ("504 Server
\* Error: Gateway Timeout"), and the ValueError of an unexpected structure
ApiFailures ==
  {Failure("Timeout", "timeout", FALSE, TRUE),
   Failure("RequestException", "connection", TRUE, FALSE),
   Failure("RequestException", "other", FALSE, FALSE),
   Failure("RequestException", "other", FALSE, TRUE),
   Failure("Exception", "other", FALSE, FALSE)}

\* two coins at a steady quote; the model enters one coin, or asks to close
\* it and to enter the other in the same answer (the entry listed first),
\* or the call fails, or the reply cannot be decoded; the indicators of a
\* coin may be missing when an entry is validated
MarketOutage ==
  [name |-> "outage",
   prices |-> {AllQuotes(1000)},
   views |-> {ViewBull, ViewError},
   ai |-> {<<Trade("XRP", "buy_to_enter", 5000, 10, 0, 0)>>,
           <<Trade("DOGE", "buy_to_enter", 5000, 10, 0, 0),
             Trade("XRP", "close_position", 0, 0, 0, 0)>>},
   overrides |-> {},
   force_close |-> {},
   max_overrides |-> 0,
   failures |-> ApiFailures \cup {Garbled},
   features |-> {},
   max_cycle |-> MaxCycleOutage]

\* one coin at a steady quote over many cycles; the model enters, or holds,
\* or the call times out
MarketWindow ==
  [name |-> "window",
   prices |-> {AllQuotes(1000)},
   views |-> {ViewBull},
   ai |-> {<<Trade("XRP", "buy_to_enter", 5000, 10, 0, 0)>>,
           <<Trade("XRP", "hold", 0, 0, 0, 0)>>},
   overrides |-> {},
   force_close |-> {},
   max_overrides |-> 0,
   failures |-> {Failure("Timeout", "timeout", FALSE, TRUE)},
   features |-> {},
   max_cycle |-> MaxCycleWindow]

\* two coins that are quoted alike and rise together by one percent
MarketPair ==
  [name |-> "pair",
   prices |-> {AllQuotes(1000), AllQuotes(1010)},
   views |-> {ViewBull},
   ai |-> {<<Trade("XRP", "buy_to_enter", 5000, 10, 0, 0),
             Trade("DOGE", "buy_to_enter", 5000, 10, 0, 0)>>},
   overrides |-> {},
   force_close |-> {},
   max_overrides |-> 0,
   failures |-> {},
   features |-> {},
   max_cycle |-> MaxCyclePair]

\* one coin whose four-hour trend turns from cycle to cycle, asked for with
\* a confidence whose margin the risk manager always refuses
MarketFlip ==
  [name |-> "flip",
   prices |-> {AllQuotes(1000)},
   views |-> {ViewBull, ViewFlat, ViewBear},
   ai |-> {<<Trade("XRP", "buy_to_enter", 10000, 10, 0, 0)>>},
   overrides |-> {},
   force_close |-> {},
   max_overrides |-> 0,
   failures |-> {},
   features |-> {},
   max_cycle |-> MaxCycleFlip]

\* one coin and a bot whose steps may raise while a cycle runs
MarketFaulty ==
  [name |-> "faulty",
   prices |-> {AllQuotes(0), AllQuotes(1000)},
   views |-> {ViewBull},
   ai |-> {<<Trade("XRP", "buy_to_enter", 5000, 10, 0, 0),
             Trade("DOGE", "buy_to_enter", 5000, 10, 0, 0)>>},
   overrides |-> {},
   force_close |-> {},
   max_overrides |-> 0,
   failures |-> {},
   features |-> {"raise"},
   max_cycle |-> MaxCycleFaulty]

\* no quotes at all, and an operator at the admin surface who pauses,
\* resumes and stops the bot
MarketConsole ==
  [name |-> "console",
   prices |-> {AllQuotes(0)},
   views |-> {ViewBull},
   ai |-> {<<Trade("XRP", "hold", 5000, 10, 0, 0)>>},
   overrides |-> {},
   force_close |-> {},
   max_overrides |-> 0,
   failures |-> {},
   features |-> {"control"},
   max_cycle |-> MaxCycleConsole]

\* no quotes at all, while a state document is replaced and read
MarketStore ==
  [name |-> "store",
   prices |-> {AllQuotes(0)},
   views |-> {ViewBull},
   ai |-> {<<Trade("XRP", "hold", 5000, 10, 0, 0)>>},
   overrides |-> {},
   force_close |-> {},
   max_overrides |-> 0,
   failures |-> {},
   features |-> {"store"},
   max_cycle |-> MaxCycleStore]

\* no quotes at all for a long run of cycles, and a bot that is stopped and
\* started again
MarketLongrun ==
  [name |-> "longrun",
   prices |-> {AllQuotes(0)},
   views |-> {ViewBull},
   ai |-> {<<Trade("XRP", "hold", 5000, 10, 0, 0)>>},
   overrides |-> {},
   force_close |-> {},
   max_overrides |-> 0,
   failures |-> {},
   features |-> {"restart"},
   max_cycle |-> MaxCycleLongrun]

\* one coin asked for with a high confidence at the leverage 8
MarketLever ==
  [name |-> "lever",
   prices |-> {AllQuotes(1000)},
   views |-> {ViewBull},
   ai |-> {<<Trade("XRP", "buy_to_enter", 6500, 8, 0, 0)>>},
   overrides |-> {},
   force_close |-> {},
   max_overrides |-> 0,
   failures |-> {},
   features |-> {},
   max_cycle |-> MaxCycleLever]

\* an answer whose profit target is the token NaN
MarketNan ==
  [name |-> "nan",
   prices |-> {AllQuotes(1000), AllQuotes(1004)},
   views |-> {ViewBull},
   ai |-> {<<Trade("XRP", "buy_to_enter", 6500, 8, NaN, 0)>>,
           <<Trade("XRP", "buy_to_enter", 6500, 8, 1100, 0)>>},
   overrides |-> {},
   force_close |-> {},
   max_overrides |-> 0,
   failures |-> {},
   features |-> {},
   max_cycle |-> MaxCycleNan]

\* one coin whose quote halves, and a monitor thread that can lose the
\* processor between two statements of its close
MarketPreempt ==
  [name |-> "preempt",
   prices |-> {Quote("XRP", 1000), Quote("XRP", 500)},
   views |-> {ViewBull},
   ai |-> {<<Trade("XRP", "buy_to_enter", 5000, 10, 0, 0)>>},
   overrides |-> {},
   force_close |-> {},
   max_overrides |-> 0,
   failures |-> {},
   features |-> {"preempt"},
   max_cycle |-> MaxCyclePreempt]

\* an admin who sends the force-close of a coin more than once
MarketResend ==
  [name |-> "resend",
   prices |-> {AllQuotes(1000)},
   views |-> {ViewBull},
   ai |-> {<<Trade("XRP", "buy_to_enter", 6500, 8, 0, 0)>>},
   overrides |-> {},
   force_close |-> {"XRP", "DOGE"},
   max_overrides |-> MaxOverridesResend,
   failures |-> {},
   features |-> {},
   max_cycle |-> MaxCycleResend]

\* one coin whose quote halves, for a bot that is started in the directory
\* of an earlier run
MarketVeteran ==
  [name |-> "veteran",
   prices |-> {Quote("XRP", 1000), Quote("XRP", 500)},
   views |-> {ViewBull},
   ai |-> {<<Trade("XRP", "buy_to_enter", 5000, 10, 0, 0)>>},
   overrides |-> {},
   force_close |-> {},
   max_overrides |-> 0,
   failures |-> {},
   features |-> {"earlier_run"},
   max_cycle |-> MaxCycleVeteran]

\* an exchange that may refuse the candle requests
MarketRefusal ==
  [name |-> "refusal",
   prices |-> {AllQuotes(0)},
   views |-> {ViewBull},
   ai |-> {<<Trade("XRP", "hold", 5000, 10, 0, 0)>>},
   overrides |-> {},
   force_close |-> {},
   max_overrides |-> 0,
   failures |-> {},
   features |-> {"klines"},
   max_cycle |-> MaxCycleRefusal]

\* a bot whose configured cap lies below the operational band, asked for a
\* leverage below and for one above the cap
MarketCapped ==
  [name |-> "capped",
   prices |-> {AllQuotes(1000)},
   views |-> {ViewCapped},
   ai |-> {<<Trade("XRP", "buy_to_enter", 5000, 3, 0, 0)>>,
           <<Trade("XRP", "buy_to_enter", 5000, 20, 0, 0)>>},
   overrides |-> {},
   force_close |-> {},
   max_overrides |-> 0,
   failures |-> {},
   features |-> {},
   max_cycle |-> MaxCycleCapped]

\* one coin bought with the trend on a thin or on an average volume
MarketThin ==
  [name |-> "thin",
   prices |-> {AllQuotes(1000)},
   views |-> {ViewThin, ViewBull},
   ai |-> {<<Trade("XRP", "buy_to_enter", 5000, 10, 0, 0)>>},
   overrides |-> {},
   force_close |-> {},
   max_overrides |-> 0,
   failures |-> {},
   features |-> {},
   max_cycle |-> MaxCycleThin]

Markets ==
  {MarketMain, MarketCrash, MarketRamp, MarketStall, MarketTrail, MarketOutage,
   MarketWindow, MarketPair, MarketFlip, MarketFaulty, MarketConsole,
   MarketStore, MarketLongrun, MarketLever, MarketNan, MarketRefusal,
   MarketPreempt, MarketResend, MarketVeteran,
   MarketCapped, MarketThin}

MarketOf(name) == CHOOSE m \in Markets : m.name = name

ApiOutcomes(m) == {Reply(answer) : answer \in m.ai} \cup m.failures

\* ------------------------------------------------------------------------
\* State
\*   pm                     the PortfolioManager object (and its state file)
\*   cycle_active,
\*   enhanced_exit_enabled  the two flags of AlphaArenaDeepSeek
\*   override_file          manual_override.json: << >> or <<decisions>>
\*   cyc                    the decision loop: where run_trading_cycle is and
\*                          its locals
\*   mon                    the monitor thread: where its loop body is and
\*                          its locals
\*   step                   who took the last step and what it was
\*   market                 the name of the surroundings of the run
\*   overrides_written      how many override documents were written so far
\*   applied_overrides      the documents the cycles applied, each named by
\*                          its number in the order of writing
\*   bot_control            bot_control.json: the status the admin surface
\*                          wrote last, "none" while the file is missing
\*   store                  a state document on disk, the call of
\*                          safe_file_write that replaces it and the call of
\*                          safe_file_read that reads it
\*   restarts               how often the bot was stopped and started again
\* ------------------------------------------------------------------------
VARIABLES pm, cycle_active, enhanced_exit_enabled, override_file, cyc, mon,
          step, market, overrides_written, applied_overrides, bot_control,
          store, restarts, klines

vars == <<pm, cycle_active, enhanced_exit_enabled, override_file, cyc, mon,
          step, market, overrides_written, applied_overrides, bot_control,
          store, restarts, klines>>

NoQuotes == AllQuotes(0)

InitPortfolio ==
  [current_balance |-> INITIAL_BALANCE, positions |-> << >>,
   trade_history |-> << >>, trade_count |-> 0,
   directional_bias |-> init_directional_bias,
   total_value |-> INITIAL_BALANCE, state_file |-> << >>, events |-> << >>,
   trend_state |-> [c \in Coins |-> NoTrendRecord],
   current_cycle_number |-> 0,
   latest_bias_metrics |-> get_directional_bias_metrics(init_directional_bias),
   cycle_history |-> << >>]

\* save_trade_history writes self.trade_history[-100:]
HistoryFileKeeps == 100

LastRecords(h, n) == IF Len(h) > n THEN SubSeq(h, Len(h) - n + 1, Len(h)) ELSE h

\* PortfolioManager.__init__ in a directory that holds the files of L: the
\* trade history, the state and the cycle history are loaded, everything
\* else starts afresh, and the value is computed and saved
Construct(L) ==
  update_prices(
    [InitPortfolio EXCEPT
       !.trade_history = LastRecords(L.trade_history, HistoryFileKeeps),
       !.current_balance =
          IF L.state_file = << >> THEN INITIAL_BALANCE
          ELSE L.state_file[1].current_balance,
       !.positions =
          IF L.state_file = << >> THEN << >>
          ELSE load_positions(L.state_file[1].positions),
       !.trade_count =
          IF L.state_file = << >>
          THEN Len(LastRecords(L.trade_history, HistoryFileKeeps))
          ELSE L.state_file[1].trade_count,
       !.directional_bias =
          IF L.state_file = << >> THEN init_directional_bias
          ELSE L.state_file[1].directional_bias,
       !.state_file = L.state_file,
       !.cycle_history = L.cycle_history],
    NoQuotes, FALSE)

\* every handler starts with an empty log
Fresh(p) == [p EXCEPT !.events = << >>]

\* two decision cycles of an earlier run at a steady quote: the AI enters
\* XRP in the first and closes it with close_position in the second
EarlierRound(L) ==
  AiCloseLoop(
    ExecuteTrade(Fresh(L), Trade("XRP", "buy_to_enter", 5000, 10, 0, 0),
                 AllQuotes(1000), ViewBull),
    <<Trade("XRP", "close_position", 0, 0, 0, 0)>>, AllQuotes(1000))

\* n such rounds one after the other, n >= 1 (the test of trade_count has
\* the portfolio evaluated before the rounds are applied to it)
RECURSIVE EarlierRounds(_, _)
EarlierRounds(L, n) ==
  IF L.trade_count < 0 THEN L
  ELSE IF n = 1 THEN save_state(EarlierRound(L))
  ELSE EarlierRounds(EarlierRounds(L, n \div 2), n - n \div 2)

\* the portfolio an earlier run leaves behind after n rounds
EarlierRun(n) == EarlierRounds(InitPortfolio, n)

\* the portfolio after construction: in an empty directory, or in the
\* directory of the earlier run (whose cycle history was not kept)
StartPortfolio(features) ==
  IF "earlier_run" \in features
  THEN Construct(EarlierRun(MaxEarlierTrades))
  ELSE InitPortfolio

IdleCycle ==
  [pc |-> "idle", cycle_number |-> 0, valid_prices |-> NoQuotes,
   positions_closed_by_tp_sl |-> FALSE, manual_override |-> FALSE,
   ai_called |-> FALSE, ai_outcome |-> NoOutcome, ai_decisions |-> << >>,
   decisions |-> << >>, queue |-> << >>]

\* get_real_time_data before it is called: the attempt of the loop, the
\* seconds slept so far, the result, the last response and the calls made
IdleKlines ==
  [pc |-> "idle", attempt |-> 0, slept |-> << >>, result |-> "none",
   last |-> "none", calls |-> 0]

IdleMonitor == [pc |-> "idle", valid_prices |-> NoQuotes, closing |-> ""]

Did(actor, op) == [actor |-> actor, op |-> op]

\* what safe_file_read hands back: a complete document is named by its
\* number, DefaultData is the default_data of the call
NotRead == 0 - 1

DefaultData == 0

\* content 0 is the file of length zero; the file holds document 1 when the
\* run starts
InitStore ==
  [content |-> 1, lock_ex |-> FALSE, lock_sh |-> FALSE,
   writer |-> "idle", document |-> 1, reader |-> "idle", result |-> NotRead]

Init ==
  /\ market \in {m.name : m \in Markets}
  /\ pm = StartPortfolio(MarketOf(market).features)
  /\ cycle_active = FALSE
  /\ enhanced_exit_enabled = TRUE
  /\ override_file = << >>
  /\ cyc = IdleCycle
  /\ mon = IdleMonitor
  /\ step = Did("init", "init")
  /\ overrides_written = 0
  /\ applied_overrides = << >>
  /\ bot_control = "none"
  /\ store = InitStore
  /\ restarts = 0
  /\ klines = IdleKlines

\* ------------------------------------------------------------------------
\* RealMarketData.get_real_time_data
\* ------------------------------------------------------------------------
max_retries == 3

\* what one request to /klines can come to: a valid frame, fewer than 50
\* rows, a frame that fails the validation, a timeout, any other exception
KlineResponses == {"frame", "short", "invalid", "timeout", "exception"}

\* the responses that send the loop into its next attempt
KlineRefusals == {"invalid", "timeout", "exception"}

\* one pass through the body of `for attempt in range(max_retries)`: the
\* request, and then the return or the sleep before the next pass
kline_attempt(k, response) ==
  IF response = "frame"
  THEN [k EXCEPT !.pc = "returned", !.result = "frame", !.last = response]
  ELSE IF response = "short"
  THEN [k EXCEPT !.pc = "returned", !.result = "empty", !.last = response]
  ELSE IF k.attempt < max_retries - 1
  THEN [k EXCEPT !.attempt = k.attempt + 1,
                 !.slept = Append(k.slept, 2 ^ k.attempt),
                 !.last = response]
  ELSE [k EXCEPT !.pc = "returned", !.result = "empty", !.last = response]

HasValid(prices) == \E c \in Coins : prices[c] > 0

\* ------------------------------------------------------------------------
\* The decision loop (run_simulation / run_trading_cycle)
\* ------------------------------------------------------------------------
CycleStart ==
  /\ cyc.pc = "idle"
  /\ cyc.cycle_number < MarketOf(market).max_cycle
  /\ LET n == cyc.cycle_number + 1
     IN /\ pm' = [Fresh(pm) EXCEPT
                    !.current_cycle_number = n,
                    !.latest_bias_metrics =
                       get_directional_bias_metrics(pm.directional_bias)]
        /\ cyc' = [IdleCycle EXCEPT !.pc = "fetch", !.cycle_number = n]
  /\ cycle_active' = TRUE
  /\ enhanced_exit_enabled' = FALSE
  /\ step' = Did("cycle", "start")
  /\ UNCHANGED <<klines, restarts, bot_control, store, override_file, mon, market, overrides_written, applied_overrides>>

\* get_all_real_prices answered with at least one valid quote
CycleMark ==
  /\ cyc.pc = "fetch"
  /\ \E prices \in MarketOf(market).prices :
       /\ HasValid(prices)
       /\ pm' = update_prices(Fresh(pm), prices, TRUE)
       /\ cyc' = [cyc EXCEPT !.pc = "check", !.valid_prices = prices]
  /\ step' = Did("cycle", "mark")
  /\ UNCHANGED <<klines, restarts, bot_control, store, cycle_active, enhanced_exit_enabled, override_file, mon,
                 market, overrides_written, applied_overrides>>

except_clause_silent(L, cycle_number, decisions) == L

\* except Exception: the error goes into the cycle history with the
\* decisions the cycle had reached
except_clause(L, cycle_number, decisions) ==
  add_to_cycle_history(L, cycle_number, "error", decisions)

finally_clause_on_success(raised) ==
  [cycle_active |-> raised, enhanced_exit_enabled |-> ~raised]

\* finally: both flags are released however the try block was left
finally_clause(raised) ==
  [cycle_active |-> FALSE, enhanced_exit_enabled |-> TRUE]

\* the except and finally clauses after "No valid market prices received."
CycleNoPrices ==
  /\ cyc.pc = "fetch"
  /\ \E prices \in MarketOf(market).prices : ~HasValid(prices)
  /\ pm' = except_clause(Fresh(pm), cyc.cycle_number, << >>)
  /\ cyc' = [cyc EXCEPT !.pc = "idle"]
  /\ cycle_active' = finally_clause(TRUE).cycle_active
  /\ enhanced_exit_enabled' = finally_clause(TRUE).enhanced_exit_enabled
  /\ step' = Did("cycle", "error")
  /\ UNCHANGED <<klines, restarts, bot_control, store, override_file, mon, market, overrides_written, applied_overrides>>

\* a step of the try block raises: the except and finally clauses
CycleRaise ==
  /\ "raise" \in MarketOf(market).features
  /\ cyc.pc \in {"fetch", "check", "decide", "ai_close", "execute", "finish"}
  /\ pm' = except_clause(Fresh(pm), cyc.cycle_number, cyc.decisions)
  /\ cyc' = [cyc EXCEPT !.pc = "idle"]
  /\ cycle_active' = finally_clause(TRUE).cycle_active
  /\ enhanced_exit_enabled' = finally_clause(TRUE).enhanced_exit_enabled
  /\ step' = Did("cycle", "raise")
  /\ UNCHANGED <<klines, restarts, bot_control, store, override_file, mon, market, overrides_written, applied_overrides>>

CycleCheck ==
  /\ cyc.pc = "check"
  /\ pm' = check_and_execute_tp_sl(Fresh(pm), cyc.valid_prices)
  /\ cyc' = [cyc EXCEPT !.pc = "decide",
                        !.positions_closed_by_tp_sl = ClosedAny(pm')]
  /\ step' = Did("cycle", "check")
  /\ UNCHANGED <<klines, restarts, bot_control, store, cycle_active, enhanced_exit_enabled, override_file, mon,
                 market, overrides_written, applied_overrides>>

RemoveOverrideFails(file) == file

\* os.remove(self.override_file)
RemoveOverride(file) == << >>

\* the locals of run_trading_cycle once the decisions of the AI path are
\* final: the path they take and what is handed to execute_decision
AfterLimit(c, outcome, ai_decisions, decisions, queue) ==
  [c EXCEPT
     !.ai_called = TRUE,
     !.ai_outcome = outcome,
     !.ai_decisions = ai_decisions,
     !.decisions = decisions,
     !.queue = IF has_close_position_signal(decisions) THEN << >> ELSE queue,
     !.pc = IF decisions = << >> THEN "finish"
            ELSE IF has_close_position_signal(decisions) THEN "ai_close"
            ELSE IF queue # << >> THEN "execute"
            ELSE "finish"]

Limited(c, outcome, ai_decisions, decisions, current_positions, max_positions_for_cycle) ==
  AfterLimit(c, outcome, ai_decisions, decisions,
             RampFilter(decisions, current_positions, max_positions_for_cycle,
                        TRUE))

\* the position-limit rewrite of the parsed answer
AfterAnswer(c, outcome, ai_decisions, current_positions, max_positions_for_cycle) ==
  Limited(c, outcome, ai_decisions,
          IF current_positions >= max_positions_for_cycle
          THEN RewriteToHold(ai_decisions) ELSE ai_decisions,
          current_positions, max_positions_for_cycle)

\* get_manual_override, then (without override and without auto-exit) the
\* AI call and the position-limit rewrite, then the choice of the path
CycleDecide ==
  /\ cyc.pc = "decide"
  /\ LET max_positions_for_cycle == get_max_positions_for_cycle(cyc.cycle_number)
         current_positions == Len(pm.positions)
     IN IF override_file # << >>
        THEN /\ override_file' = RemoveOverride(override_file)
             /\ applied_overrides' = Append(applied_overrides, overrides_written)
             /\ cyc' = [cyc EXCEPT
                          !.manual_override = TRUE,
                          !.decisions = override_file[1],
                          !.queue = override_file[1],
                          !.pc = IF override_file[1] # << >>
                                 THEN "execute" ELSE "finish"]
        ELSE IF AskAI(FALSE, cyc.positions_closed_by_tp_sl)
        THEN /\ UNCHANGED <<klines, restarts, bot_control, store, override_file, applied_overrides>>
             /\ \E outcome \in ApiOutcomes(MarketOf(market)) :
                  cyc' = AfterAnswer(cyc, outcome,
                            parse_ai_response(
                               get_ai_decision(outcome, pm.cycle_history),
                               pm.positions),
                            current_positions, max_positions_for_cycle)
        ELSE /\ UNCHANGED <<klines, restarts, bot_control, store, override_file, applied_overrides>>
             /\ cyc' = [cyc EXCEPT !.pc = "finish"]
  /\ pm' = Fresh(pm)
  /\ step' = Did("cycle", "decide")
  /\ UNCHANGED <<klines, restarts, bot_control, store, cycle_active, enhanced_exit_enabled, mon, market,
                 overrides_written>>

\* the close-first loop, then the filter of _execute_new_positions_only
CycleAiClose ==
  /\ cyc.pc = "ai_close"
  /\ pm' = AiCloseLoop(Fresh(pm), cyc.decisions, cyc.valid_prices)
  /\ LET queue == RampFilter(cyc.decisions, Len(pm'.positions),
                             get_max_positions_for_cycle(cyc.cycle_number), FALSE)
     IN cyc' = [cyc EXCEPT !.queue = queue,
                           !.pc = IF queue # << >> THEN "execute" ELSE "finish"]
  /\ step' = Did("cycle", "ai_close")
  /\ UNCHANGED <<klines, restarts, bot_control, store, cycle_active, enhanced_exit_enabled, override_file, mon,
                 market, overrides_written, applied_overrides>>

\* one iteration of the loop of execute_decision
CycleExecute ==
  /\ cyc.pc = "execute"
  /\ cyc.queue # << >>
  /\ \E mv \in MarketOf(market).views :
       pm' = IF cyc.manual_override
             THEN ExecuteOverride(Fresh(pm), Head(cyc.queue), cyc.valid_prices, mv)
             ELSE ExecuteTrade(Fresh(pm), Head(cyc.queue), cyc.valid_prices, mv)
  /\ cyc' = [cyc EXCEPT !.queue = Tail(cyc.queue),
                        !.pc = IF Tail(cyc.queue) = << >> THEN "finish"
                               ELSE "execute"]
  /\ step' = Did("cycle", "execute")
  /\ UNCHANGED <<klines, restarts, bot_control, store, cycle_active, enhanced_exit_enabled, override_file, mon,
                 market, overrides_written, applied_overrides>>

\* save_state, add_to_cycle_history and the finally clause
CycleFinish ==
  /\ cyc.pc = "finish"
  /\ pm' = add_to_cycle_history(save_state(Fresh(pm)), cyc.cycle_number, "ok",
                                cyc.decisions)
  /\ cyc' = [cyc EXCEPT !.pc = "idle"]
  /\ cycle_active' = finally_clause(FALSE).cycle_active
  /\ enhanced_exit_enabled' = finally_clause(FALSE).enhanced_exit_enabled
  /\ step' = Did("cycle", "finish")
  /\ UNCHANGED <<klines, restarts, bot_control, store, override_file, mon, market, overrides_written, applied_overrides>>

\* ------------------------------------------------------------------------
\* The monitor thread (_tp_sl_monitoring_loop)
\* ------------------------------------------------------------------------
\* both flags read, the loop body goes on to fetch the prices
MonitorPoll ==
  /\ mon.pc = "idle"
  /\ ~cycle_active
  /\ enhanced_exit_enabled
  /\ mon' = [mon EXCEPT !.pc = "fetch"]
  /\ pm' = Fresh(pm)
  /\ step' = Did("monitor", "poll")
  /\ UNCHANGED <<klines, restarts, bot_control, store, cycle_active, enhanced_exit_enabled, override_file, cyc,
                 market, overrides_written, applied_overrides>>

MonitorMark ==
  /\ mon.pc = "fetch"
  /\ \E prices \in MarketOf(market).prices :
       IF HasValid(prices)
       THEN /\ pm' = update_prices(Fresh(pm), prices, FALSE)
            /\ mon' = [IdleMonitor EXCEPT !.pc = "check", !.valid_prices = prices]
            /\ step' = Did("monitor", "mark")
       ELSE /\ pm' = Fresh(pm)
            /\ mon' = IdleMonitor
            /\ step' = Did("monitor", "no_prices")
  /\ UNCHANGED <<klines, restarts, bot_control, store, cycle_active, enhanced_exit_enabled, override_file, cyc,
                 market, overrides_written, applied_overrides>>

MonitorCheck ==
  /\ mon.pc = "check"
  /\ pm' = check_and_execute_tp_sl(Fresh(pm), mon.valid_prices)
  /\ mon' = IdleMonitor
  /\ step' = Did("monitor", "check")
  /\ UNCHANGED <<klines, restarts, bot_control, store, cycle_active, enhanced_exit_enabled, override_file, cyc,
                 market, overrides_written, applied_overrides>>

\* the monitor's pass over a single position that it closes, up to and
\* including add_to_history: the cash is credited and the record written,
\* `del self.positions[coin]` is still to come
MonitorCloseCredit ==
  /\ "preempt" \in MarketOf(market).features
  /\ mon.pc = "check"
  /\ Len(pm.positions) = 1
  /\ LET coin == pm.positions[1].symbol
         closed == CheckOne(Fresh(pm), coin, mon.valid_prices)
     IN /\ \E i \in 1..Len(closed.events) : closed.events[i].kind = "auto_close"
        /\ pm' = [closed EXCEPT !.positions = pm.positions]
        /\ mon' = [mon EXCEPT !.pc = "delete", !.closing = coin]
  /\ step' = Did("monitor", "credit")
  /\ UNCHANGED <<klines, restarts, bot_control, store, cycle_active,
                 enhanced_exit_enabled, override_file, cyc, market,
                 overrides_written, applied_overrides>>

\* `del self.positions[coin]` and the save that ends the pass; the KeyError
\* of a position that is gone ends the pass without the save
MonitorCloseDelete ==
  /\ mon.pc = "delete"
  /\ pm' = IF HasPos(pm.positions, mon.closing)
            THEN save_state([Fresh(pm) EXCEPT
                               !.positions = DelPos(pm.positions, mon.closing)])
            ELSE Fresh(pm)
  /\ mon' = IdleMonitor
  /\ step' = Did("monitor", "delete")
  /\ UNCHANGED <<klines, restarts, bot_control, store, cycle_active,
                 enhanced_exit_enabled, override_file, cyc, market,
                 overrides_written, applied_overrides>>

\* ------------------------------------------------------------------------
\* Writers of manual_override.json
\* ------------------------------------------------------------------------
\* POST /api/force-close {coin}
AdminForceClose ==
  /\ overrides_written < MarketOf(market).max_overrides
  /\ \E coin \in MarketOf(market).force_close :
       override_file' = <<<<Trade(coin, "close_position", 0, 0, 0, 0)>>>>
  /\ overrides_written' = overrides_written + 1
  /\ pm' = Fresh(pm)
  /\ step' = Did("admin", "force_close")
  /\ UNCHANGED <<klines, restarts, bot_control, store, cycle_active, enhanced_exit_enabled, cyc, mon, market,
                 applied_overrides>>

\* an operator places a document with decisions of their own
OperatorOverride ==
  /\ overrides_written < MarketOf(market).max_overrides
  /\ \E decisions \in MarketOf(market).overrides : override_file' = <<decisions>>
  /\ overrides_written' = overrides_written + 1
  /\ pm' = Fresh(pm)
  /\ step' = Did("operator", "override")
  /\ UNCHANGED <<klines, restarts, bot_control, store, cycle_active, enhanced_exit_enabled, cyc, mon, market,
                 applied_overrides>>

\* the bot is stopped between two cycles and started again: main() builds
\* the objects anew and run_simulation resumes at len(cycle_history) + 1
Restart ==
  /\ "restart" \in MarketOf(market).features
  /\ restarts < MaxRestarts
  /\ cyc.pc = "idle"
  /\ mon.pc = "idle"
  /\ pm' = Construct(pm)
  /\ cyc' = [IdleCycle EXCEPT !.cycle_number = Len(pm.cycle_history)]
  /\ mon' = IdleMonitor
  /\ cycle_active' = FALSE
  /\ enhanced_exit_enabled' = TRUE
  /\ restarts' = restarts + 1
  /\ step' = Did("bot", "restart")
  /\ UNCHANGED <<klines, bot_control, store, override_file, market, overrides_written,
                 applied_overrides>>

\* ------------------------------------------------------------------------
\* The admin surface: POST /api/bot-control {action}
\* ------------------------------------------------------------------------
status_map(action) ==
  IF action = "pause" THEN "paused"
  ELSE IF action = "resume" THEN "running"
  ELSE "stopped"

set_bot_control ==
  /\ "control" \in MarketOf(market).features
  /\ \E action \in {"pause", "resume", "stop"} :
       bot_control' = status_map(action)
  /\ pm' = Fresh(pm)
  /\ step' = Did("admin", "bot_control")
  /\ UNCHANGED <<klines, restarts, store, cycle_active, enhanced_exit_enabled, override_file, cyc,
                 mon, market, overrides_written, applied_overrides>>

\* ------------------------------------------------------------------------
\* A state document on disk: safe_file_write in one process, safe_file_read
\* in another
\* ------------------------------------------------------------------------
\* open(file_path, 'w') creates the file or cuts it to length zero
WriteOpen ==
  /\ "store" \in MarketOf(market).features
  /\ store.writer = "idle"
  /\ store.document < MaxDocument
  /\ store' = [store EXCEPT !.writer = "opened", !.content = 0,
                            !.document = store.document + 1]
  /\ pm' = Fresh(pm)
  /\ step' = Did("writer", "open")
  /\ UNCHANGED <<klines, restarts, bot_control, cycle_active, enhanced_exit_enabled, override_file,
                 cyc, mon, market, overrides_written, applied_overrides>>

\* fcntl.flock(f, fcntl.LOCK_EX) returns once no other lock is held
WriteLock ==
  /\ store.writer = "opened"
  /\ ~store.lock_sh
  /\ store' = [store EXCEPT !.writer = "locked", !.lock_ex = TRUE]
  /\ pm' = Fresh(pm)
  /\ step' = Did("writer", "lock")
  /\ UNCHANGED <<klines, restarts, bot_control, cycle_active, enhanced_exit_enabled, override_file,
                 cyc, mon, market, overrides_written, applied_overrides>>

\* json.dump and the end of the with block: the text reaches the file and
\* the lock goes with the file object
WriteDump ==
  /\ store.writer = "locked"
  /\ store' = [store EXCEPT !.writer = "idle", !.lock_ex = FALSE,
                            !.content = store.document]
  /\ pm' = Fresh(pm)
  /\ step' = Did("writer", "dump")
  /\ UNCHANGED <<klines, restarts, bot_control, cycle_active, enhanced_exit_enabled, override_file,
                 cyc, mon, market, overrides_written, applied_overrides>>

\* os.path.exists and open(file_path, 'r')
ReadOpen ==
  /\ "store" \in MarketOf(market).features
  /\ store.reader = "idle"
  /\ store' = [store EXCEPT !.reader = "opened", !.result = NotRead]
  /\ pm' = Fresh(pm)
  /\ step' = Did("reader", "open")
  /\ UNCHANGED <<klines, restarts, bot_control, cycle_active, enhanced_exit_enabled, override_file,
                 cyc, mon, market, overrides_written, applied_overrides>>

\* fcntl.flock(f, fcntl.LOCK_SH) returns once no exclusive lock is held
ReadLock ==
  /\ store.reader = "opened"
  /\ ~store.lock_ex
  /\ store' = [store EXCEPT !.reader = "locked", !.lock_sh = TRUE]
  /\ pm' = Fresh(pm)
  /\ step' = Did("reader", "lock")
  /\ UNCHANGED <<klines, restarts, bot_control, cycle_active, enhanced_exit_enabled, override_file,
                 cyc, mon, market, overrides_written, applied_overrides>>

\* json.load(f): the text of a complete document parses, the empty text
\* raises and the except clause returns default_data
json_load(content) == IF content = 0 THEN DefaultData ELSE content

ReadLoad ==
  /\ store.reader = "locked"
  /\ store' = [store EXCEPT !.reader = "idle", !.lock_sh = FALSE,
                            !.result = json_load(store.content)]
  /\ pm' = Fresh(pm)
  /\ step' = Did("reader", "load")
  /\ UNCHANGED <<klines, restarts, bot_control, cycle_active, enhanced_exit_enabled, override_file,
                 cyc, mon, market, overrides_written, applied_overrides>>

\* ------------------------------------------------------------------------
\* The candle requests
\* ------------------------------------------------------------------------
KlinesCall ==
  /\ "klines" \in MarketOf(market).features
  /\ klines.pc \in {"idle", "returned"}
  /\ klines.calls < MaxKlineCalls
  /\ klines' = [IdleKlines EXCEPT !.pc = "request", !.calls = klines.calls + 1]
  /\ step' = Did("klines", "call")
  /\ UNCHANGED <<pm, cycle_active, enhanced_exit_enabled, override_file, cyc,
                 mon, market, overrides_written, applied_overrides,
                 bot_control, store, restarts>>

KlinesAttempt ==
  /\ klines.pc = "request"
  /\ \E response \in KlineResponses : klines' = kline_attempt(klines, response)
  /\ step' = Did("klines", "attempt")
  /\ UNCHANGED <<pm, cycle_active, enhanced_exit_enabled, override_file, cyc,
                 mon, market, overrides_written, applied_overrides,
                 bot_control, store, restarts>>

Next ==
  \/ CycleStart
  \/ CycleMark
  \/ CycleNoPrices
  \/ CycleRaise
  \/ CycleCheck
  \/ CycleDecide
  \/ CycleAiClose
  \/ CycleExecute
  \/ CycleFinish
  \/ MonitorPoll
  \/ MonitorMark
  \/ MonitorCheck
  \/ AdminForceClose
  \/ OperatorOverride
  \/ Restart
  \/ set_bot_control
  \/ WriteOpen
  \/ WriteLock
  \/ WriteDump
  \/ ReadOpen
  \/ ReadLock
  \/ ReadLoad
  \/ MonitorCloseCredit
  \/ MonitorCloseDelete
  \/ KlinesCall
  \/ KlinesAttempt

Spec == Init /\ [][Next]_vars

\* ========================================================================
\* Properties
\* ========================================================================
FullCloseKinds == {"auto_close", "ai_close", "decision_close"}

CheckKinds == {"auto_close", "partial_close", "update_stop", "checked_hold"}

\* pnl realized on `qty` units of the position of event e at its price
RealizedPnl(e, qty) ==
  IF e.pos.direction = "long"
  THEN ((e.price - e.pos.entry_price) * qty) \div QtyScale
  ELSE ((e.pos.entry_price - e.price) * qty) \div QtyScale

\* C1: every accepted entry lowers current_balance by exactly the margin of
\* the new position, and every full close (auto-exit, AI close_position,
\* manual close) raises it by exactly the margin of the closed position plus
\* the pnl realized at the close price; the balance after the last
\* operation of a step is the balance of the portfolio.
C1_CashConservation ==
  /\ \A i \in 1..Len(pm.events) :
       LET e == pm.events[i]
       IN /\ e.kind = "entry" =>
               /\ e.bal_after = e.bal_before - e.pos.margin_usd
               /\ HasPos(pm.positions, e.symbol)
               /\ PosOf(pm.positions, e.symbol) = e.pos
          /\ e.kind \in FullCloseKinds =>
               e.bal_after = e.bal_before + e.pos.margin_usd
                             + RealizedPnl(e, e.pos.quantity)
          /\ i > 1 => e.bal_before = pm.events[i - 1].bal_after
  /\ pm.events # << >> => pm.events[Len(pm.events)].bal_after = pm.current_balance

\* a close through the operator's close_position at a price away from the
\* entry
C1_Witness ==
  \E i \in 1..Len(pm.events) :
    /\ pm.events[i].kind = "decision_close"
    /\ pm.events[i].pos.margin_usd > 0
    /\ RealizedPnl(pm.events[i], pm.events[i].pos.quantity) # 0

\* C2: current_balance is never negative.
C2_BalanceNonNegative == pm.current_balance >= 0

\* C3: while a decision cycle is active the monitor thread performs no
\* mark-to-market and no exit check on the portfolio.
C3_MonitorStandsDown ==
  (step.actor = "monitor" /\ step.op \in {"mark", "check"}) => ~cycle_active

\* C4: at the end of decision cycle N at most min(N, 5) positions are open.
C4_RampCap ==
  step = Did("cycle", "finish") =>
    Len(pm.positions) <= (IF cyc.cycle_number < 5 THEN cyc.cycle_number ELSE 5)

\* the entry of event e goes against the higher-timeframe trend
AgainstHigherTimeframe(e) ==
  \/ e.info.signal = "buy_to_enter" /\ e.info.ind4h.price < e.info.ind4h.ema_20
  \/ e.info.signal = "sell_to_enter" /\ e.info.ind4h.price > e.info.ind4h.ema_20

\* C5: every accepted entry whose direction is opposite to the
\* higher-timeframe trend was accepted with confidence >= 0.75 and with at
\* least 3 of the 5 counter-trend conditions true.
C5_CounterTrendGate ==
  \A i \in 1..Len(pm.events) :
    LET e == pm.events[i]
    IN (e.kind = "entry" /\ AgainstHigherTimeframe(e)) =>
         /\ e.info.confidence >= 7500
         /\ CounterConditions(e.info.signal, e.info.ind3m) >= 3

LongCount == Cardinality({i \in 1..Len(pm.positions) : pm.positions[i].direction = "long"})

ShortCount == Cardinality({i \in 1..Len(pm.positions) : pm.positions[i].direction = "short"})

\* C6: an entry accepted in a bullish (bearish) overall regime never brings
\* the number of open long (short) positions above 4.
C6_DirectionSaturation ==
  \A i \in 1..Len(pm.events) :
    LET e == pm.events[i]
    IN e.kind = "entry" =>
         /\ (e.info.regime = "BULLISH" /\ e.pos.direction = "long") => LongCount <= 4
         /\ (e.info.regime = "BEARISH" /\ e.pos.direction = "short") => ShortCount <= 4

\* a long entry accepted in a bullish regime that fills the fourth long slot
C6_Witness ==
  /\ LongCount = 4
  /\ \E i \in 1..Len(pm.events) :
       /\ pm.events[i].kind = "entry"
       /\ pm.events[i].info.regime = "BULLISH"
       /\ pm.events[i].pos.direction = "long"

\* C7: an entry signal for a coin that already has an open position changes
\* neither that position nor current_balance, and no coin ever holds more
\* than one position.
C7_NoSecondEntry ==
  /\ [](\A i, j \in 1..Len(pm.positions) :
          pm.positions[i].symbol = pm.positions[j].symbol => i = j)
  /\ [][\A i \in 1..Len(pm'.events) :
          LET e == pm'.events[i]
          IN (step' = Did("cycle", "execute")
              /\ e.info.signal \in {"buy_to_enter", "sell_to_enter"}
              /\ HasPos(pm.positions, e.symbol))
             => /\ pm'.current_balance = pm.current_balance
                /\ pm'.positions = pm.positions]_vars

\* an entry signal was executed for a coin whose position is open
C7_Witness ==
  /\ step = Did("cycle", "execute")
  /\ \E i \in 1..Len(pm.events) :
       /\ pm.events[i].info.signal \in {"buy_to_enter", "sell_to_enter"}
       /\ pm.events[i].kind = "skipped"
       /\ pm.events[i].pos.symbol = pm.events[i].symbol
       /\ HasPos(pm.positions, pm.events[i].symbol)

\* C8: a partial close of fraction f = num/den credits current_balance with
\* f x margin_before plus the pnl realized on the closed quantity and leaves
\* the position with (1 - f) x margin_before and (1 - f) x quantity_before.
C8_PartialClose ==
  \A i \in 1..Len(pm.events) :
    LET e == pm.events[i]
        num == e.info.num
        den == e.info.den
    IN e.kind = "partial_close" =>
         /\ 0 < num /\ num < den
         /\ e.bal_after - e.bal_before =
              MulDiv(e.pos.margin_usd, num, den)
              + RealizedPnl(e, MulDiv(e.pos.quantity, num, den))
         /\ HasPos(pm.positions, e.symbol)
         /\ PosOf(pm.positions, e.symbol).margin_usd =
              MulDiv(e.pos.margin_usd, den - num, den)
         /\ PosOf(pm.positions, e.symbol).quantity =
              MulDiv(e.pos.quantity, den - num, den)

\* a partial close at a profit
C8_Witness ==
  \E i \in 1..Len(pm.events) :
    /\ pm.events[i].kind = "partial_close"
    /\ pm.events[i].bal_after > pm.events[i].bal_before
    /\ pm.events[i].pos.margin_usd > 0

\* the price of event e is at or beyond the profit target of its position,
\* or at or beyond its stop on the losing side
Crossed(e) ==
  \/ /\ e.pos.profit_target # 0
     /\ e.pos.profit_target # NaN
     /\ \/ e.pos.direction = "long" /\ e.price >= e.pos.profit_target
        \/ e.pos.direction = "short" /\ e.price <= e.pos.profit_target
  \/ /\ e.pos.stop_loss # 0
     /\ \/ e.pos.direction = "long" /\ e.price <= e.pos.stop_loss
        \/ e.pos.direction = "short" /\ e.price >= e.pos.stop_loss

\* C9 as claimed: whenever an exit check runs with a valid price at or beyond
\* a position's profit target, or at or beyond its stop on the losing side,
\* the position is fully closed in that same check.
C9_HardTpSlAlways ==
  \A i \in 1..Len(pm.events) :
    LET e == pm.events[i]
    IN (e.kind \in CheckKinds /\ Crossed(e)) =>
         (e.kind = "auto_close" /\ ~HasPos(pm.positions, e.symbol))

\* C9 as amended: ... the position is fully closed in that same check unless
\* the enhanced exit strategy took a partial close of it first in that check.
C9_HardTpSlUnlessEnhanced ==
  \A i \in 1..Len(pm.events) :
    LET e == pm.events[i]
    IN (e.kind \in CheckKinds /\ Crossed(e)) =>
         \/ e.kind = "auto_close" /\ ~HasPos(pm.positions, e.symbol)
         \/ e.kind = "partial_close"

\* a position closed by its profit target while the enhanced strategy held
C9_Witness ==
  \E i \in 1..Len(pm.events) :
    /\ pm.events[i].kind = "auto_close"
    /\ pm.events[i].info.reason.kind = "Profit Target hit"
    /\ Crossed(pm.events[i])

\* C10: after the exit check of a decision cycle no position is left open
\* that was at a loss (unrealized_pnl <= 0) at 10 consecutive cycle marks,
\* and a position closed with 10 such marks carries the close reason
\* "Position negative for 10 cycles".
C10_StallTimeout ==
  step = Did("cycle", "check") =>
    /\ \A i \in 1..Len(pm.positions) : pm.positions[i].loss_cycle_count < 10
    /\ \A i \in 1..Len(pm.events) :
         (pm.events[i].kind = "auto_close"
          /\ pm.events[i].pos.loss_cycle_count >= 10)
         => pm.events[i].info.reason =
              [kind |-> "Position negative for n cycles", n |-> 10]

\* C11: the loss_cycle_count of a held position changes only at a
\* decision-cycle mark that has a valid price for its coin: there it grows by
\* exactly 1 when the marked unrealized_pnl is <= 0 and becomes 0 when it is
\* > 0; every other step, the marks of the monitor included, leaves it as it
\* was.
C11_LossCounter ==
  [][\A c \in Coins :
       (HasPos(pm.positions, c) /\ HasPos(pm'.positions, c)) =>
         IF step' = Did("cycle", "mark") /\ cyc'.valid_prices[c] > 0
         THEN PosOf(pm'.positions, c).loss_cycle_count =
                IF PosOf(pm'.positions, c).unrealized_pnl <= 0
                THEN PosOf(pm.positions, c).loss_cycle_count + 1
                ELSE 0
         ELSE PosOf(pm'.positions, c).loss_cycle_count =
                PosOf(pm.positions, c).loss_cycle_count]_vars

\* the monitor marked a position at a profit whose counter stands above 0
C11_Witness ==
  /\ step = Did("monitor", "mark")
  /\ \E i \in 1..Len(pm.positions) :
       /\ mon.valid_prices[pm.positions[i].symbol] > 0
       /\ pm.positions[i].unrealized_pnl > 0
       /\ pm.positions[i].loss_cycle_count >= 2

\* C12: while a long position is held its stop_loss never decreases, and
\* while a short position is held its stop_loss never increases.
C12_TrailingMonotone ==
  [][\A c \in Coins :
       (HasPos(pm.positions, c) /\ HasPos(pm'.positions, c)) =>
         IF PosOf(pm.positions, c).direction = "long"
         THEN PosOf(pm'.positions, c).stop_loss >= PosOf(pm.positions, c).stop_loss
         ELSE PosOf(pm'.positions, c).stop_loss <= PosOf(pm.positions, c).stop_loss]_vars

\* an exit check took a partial close of a long position that has a stop
\* and left it open at a gain
C12_Witness ==
  /\ step.op = "check"
  /\ \E i \in 1..Len(pm.events) :
       /\ pm.events[i].kind = "partial_close"
       /\ pm.events[i].pos.direction = "long"
       /\ pm.events[i].pos.stop_loss > 0
       /\ HasPos(pm.positions, pm.events[i].symbol)
       /\ PosOf(pm.positions, pm.events[i].symbol).stop_loss
            = pm.events[i].pos.stop_loss

\* the stop entry x (1 +- permille/1000) of the position of event e
StopAtGain(e, permille_x2) ==
  IF e.pos.direction = "long"
  THEN e.pos.entry_price + (e.pos.entry_price * permille_x2) \div 2000
  ELSE e.pos.entry_price - (e.pos.entry_price * permille_x2) \div 2000

\* the stop `stop` is at or beyond `bound` on the profit side of event e
StopBeyond(e, stop, bound) ==
  /\ stop # 0
  /\ IF e.pos.direction = "long" THEN stop >= bound ELSE stop <= bound

\* C13: after an exit check that finds the gain of a position it leaves open
\* at or above profit level 1, the stop_loss of the position is at or beyond
\* entry x (1 +- level1/2), and at or beyond entry x (1 +- level1) when the
\* gain is at or above level 2; the partial close of the tier is taken in
\* the same check.
C13_TrailingStopRaised ==
  \A i \in 1..Len(pm.events) :
    LET e == pm.events[i]
        lv == get_profit_levels_by_notional(e.pos.notional_usd)
    IN (e.kind \in CheckKinds /\ HasPos(pm.positions, e.symbol)
        /\ GainAtLeast(e.pos, e.price, lv.level1)) =>
         /\ e.kind = "partial_close"
         /\ StopBeyond(e, PosOf(pm.positions, e.symbol).stop_loss,
                       StopAtGain(e, lv.level1))
         /\ GainAtLeast(e.pos, e.price, lv.level2) =>
              StopBeyond(e, PosOf(pm.positions, e.symbol).stop_loss,
                         StopAtGain(e, 2 * lv.level1))

\* C14: after a partial profit-taking close the position that stays open
\* has a margin of at least 15 USD, and a position in a profit tier whose
\* margin is 15 USD or less is closed fully.
C14_RemainingMargin ==
  \A i \in 1..Len(pm.events) :
    LET e == pm.events[i]
        lv == get_profit_levels_by_notional(e.pos.notional_usd)
    IN /\ e.kind = "partial_close" =>
            /\ HasPos(pm.positions, e.symbol)
            /\ PosOf(pm.positions, e.symbol).margin_usd >= MaximumLimitFixed
       /\ (e.kind \in CheckKinds /\ GainAtLeast(e.pos, e.price, lv.level1)
           /\ e.pos.margin_usd <= MaximumLimitFixed) =>
            (e.kind = "auto_close" /\ ~HasPos(pm.positions, e.symbol))

\* a partial close whose fraction was cut down to keep the margin
C14_Witness ==
  \E i \in 1..Len(pm.events) :
    /\ pm.events[i].kind = "partial_close"
    /\ pm.events[i].info.den # 100
    /\ HasPos(pm.positions, pm.events[i].symbol)
    /\ PosOf(pm.positions, pm.events[i].symbol).margin_usd
         < MulDiv(pm.events[i].pos.margin_usd, 100 - 25, 100)

\* C15: within a cycle the steps run in the order price fetch and mark,
\* automatic exits, AI call, AI close_position closes, entries, persist; an
\* entry is attempted only in the entry step, and when the entry step of an
\* AI cycle runs, no coin the AI asked to close (and that has a valid price)
\* still has a position.
CycleOrder ==
  {<<"idle", "start", "fetch">>, <<"fetch", "mark", "check">>,
   <<"fetch", "error", "idle">>, <<"check", "check", "decide">>,
   <<"decide", "decide", "ai_close">>, <<"decide", "decide", "execute">>,
   <<"decide", "decide", "finish">>, <<"ai_close", "ai_close", "execute">>,
   <<"ai_close", "ai_close", "finish">>, <<"execute", "execute", "execute">>,
   <<"execute", "execute", "finish">>, <<"finish", "finish", "idle">>}
  \cup {<<pc, "raise", "idle">> :
          pc \in {"fetch", "check", "decide", "ai_close", "execute", "finish"}}

KindsAt(op) ==
  CASE op = "check" -> {"auto_close", "partial_close", "update_stop", "checked_hold"}
    [] op = "ai_close" -> {"ai_close"}
    [] op = "execute" -> {"entry", "skipped", "decision_close"}
    [] OTHER -> {}

C15_CycleOrder ==
  [][step'.actor = "cycle" =>
       /\ <<cyc.pc, step'.op, cyc'.pc>> \in CycleOrder
       /\ \A i \in 1..Len(pm'.events) : pm'.events[i].kind \in KindsAt(step'.op)
       /\ (step'.op = "execute" /\ ~cyc.manual_override) =>
            \A i \in 1..Len(cyc.decisions) :
               (cyc.decisions[i].signal = "close_position"
                /\ cyc.valid_prices[cyc.decisions[i].coin] > 0)
               => ~HasPos(pm.positions, cyc.decisions[i].coin)]_vars

\* an entry of an AI cycle is booked after the close the same answer asked for
C15_Witness ==
  /\ step = Did("cycle", "execute")
  /\ ~cyc.manual_override
  /\ has_close_position_signal(cyc.decisions)
  /\ \E i \in 1..Len(pm.events) :
        pm.events[i].kind = "entry" /\ pm.events[i].symbol = "DOGE"
  /\ ~HasPos(pm.positions, "XRP")
  /\ Len(pm.trade_history) > 0

\* C16: in a cycle whose automatic exit check closed a position, or in which
\* a manual override was read, the LLM is not called and no AI decision is
\* executed: after an exit nothing is executed at all, and after an override
\* only the decisions of the override are.
C16_NoAiAfterExitOrOverride ==
  /\ step = Did("cycle", "check") => cyc.positions_closed_by_tp_sl = ClosedAny(pm)
  /\ (cyc.positions_closed_by_tp_sl \/ cyc.manual_override) =>
       /\ ~cyc.ai_called
       /\ cyc.ai_outcome = NoOutcome
       /\ cyc.ai_decisions = << >>
       /\ cyc.pc # "ai_close"
       /\ ~cyc.manual_override =>
            (cyc.decisions = << >> /\ cyc.queue = << >> /\ cyc.pc # "execute")

\* a cycle that closed a position on its own ends without having asked
C16_Witness ==
  /\ step = Did("cycle", "finish")
  /\ cyc.positions_closed_by_tp_sl
  /\ ~cyc.manual_override
  /\ ~cyc.ai_called
  /\ Len(pm.trade_history) > 0

WithEntry(history) ==
  {j \in 1..Len(history) :
     /\ j > Len(history) - 5
     /\ \E k \in 1..Len(history[j].decisions) :
          history[j].decisions[k].signal \in {"buy_to_enter", "sell_to_enter"}}

SameDecisions(used, recorded) ==
  /\ Len(used) = Len(recorded)
  /\ \A k \in 1..Len(used) :
       /\ used[k].coin = recorded[k].coin
       /\ used[k].signal = recorded[k].signal
       /\ used[k].signal # "hold" => used[k] = recorded[k]

AllHold(used) ==
  /\ Len(used) = Cardinality(Coins)
  /\ \A c \in Coins : \E k \in 1..Len(used) :
        used[k].coin = c /\ used[k].signal = "hold"

LinkDown ==
  /\ step = Did("cycle", "decide")
  /\ cyc.ai_called
  /\ cyc.ai_outcome.cause \in {"timeout", "connection"}

NoAnswer ==
  /\ cyc.ai_called
  /\ \/ cyc.ai_outcome.cause = "other"
     \/ (cyc.ai_outcome.exc = "none" /\ ~cyc.ai_outcome.json_ok)

C20_SafeHold ==
  (NoAnswer /\ step.actor = "cycle") =>
    \A i \in 1..Len(pm.events) :
      pm.events[i].kind \notin {"entry", "ai_close", "decision_close"}

\* C30: every accepted entry leaves current_balance, after the margin is
\* deducted, at no less than 10 % of the current_balance just before it.
C30_CashFloor ==
  \A i \in 1..Len(pm.events) :
    LET e == pm.events[i]
    IN e.kind = "entry" =>
         /\ e.bal_after = e.bal_before - e.pos.margin_usd
         /\ e.bal_after * 10 >= e.bal_before

\* an entry booked with a second position open, whose margin is more than a
\* fifth of the cash that was left
C30_Witness ==
  \E i \in 1..Len(pm.events) :
    /\ pm.events[i].kind = "entry"
    /\ pm.events[i].bal_before < INITIAL_BALANCE
    /\ pm.events[i].pos.margin_usd * 5 > pm.events[i].bal_before
    /\ pm.events[i].bal_after = pm.events[i].bal_before - pm.events[i].pos.margin_usd
    /\ Len(pm.positions) >= 2

\* C26: every full or partial close appends exactly one closed-trade record,
\* the records appear in the order the closes fire, the directional bias has
\* taken in a record before the next one is appended (it counts every record
\* and ends with the pnl of the latest one), and the portfolio state is
\* persisted after the close.
IsClosing(e) == e.kind \in {"partial_close", "auto_close", "ai_close", "decision_close"}

ClosingEvents(events) == SelectSeq(events, IsClosing)

BiasFollows(bias, history) ==
  history # << >> =>
       LET r == history[Len(history)]
           rolling == bias[r.direction].rolling
       IN rolling # << >> /\ rolling[Len(rolling)] = r.pnl

C26_ClosedTradeRecords ==
  [][LET closes == ClosingEvents(pm'.events)
         old == pm.trade_history
         new == pm'.trade_history
     IN /\ Len(new) = Len(old) + Len(closes)
        /\ SubSeq(new, 1, Len(old)) = old
        /\ \A k \in 1..Len(closes) :
             /\ new[Len(old) + k].symbol = closes[k].symbol
             /\ new[Len(old) + k].direction = closes[k].pos.direction
             /\ new[Len(old) + k].exit_price = closes[k].price
        /\ pm'.directional_bias.long.trades + pm'.directional_bias.short.trades
             = pm.directional_bias.long.trades + pm.directional_bias.short.trades
               + Len(closes)
        /\ BiasFollows(pm'.directional_bias, new)
        /\ closes # << >> =>
             /\ pm'.state_file # << >>
             /\ pm'.state_file[1].trade_count = Len(new)
             /\ pm'.state_file[1].directional_bias = pm'.directional_bias
             /\ pm'.state_file[1].current_balance = pm'.current_balance]_vars

\* one exit check closes a part of two positions, one after the other
C26_Witness ==
  /\ Len(ClosingEvents(pm.events)) = 2
  /\ ClosingEvents(pm.events)[1].symbol # ClosingEvents(pm.events)[2].symbol
  /\ Len(pm.trade_history) >= 2
  /\ pm.trade_history[Len(pm.trade_history)].symbol
       = ClosingEvents(pm.events)[2].symbol
  /\ pm.trade_count = Len(pm.trade_history)

\* C27: the closed-trade record of a partial close of the fraction f carries
\* quantity = f x quantity_before, notional_usd = f x notional_before and
\* the pnl of the closed quantity.
RecordOf(k) ==
  pm.trade_history[Len(pm.trade_history) - Len(ClosingEvents(pm.events)) + k]

C27_PartialCloseRecord ==
  \A k \in 1..Len(ClosingEvents(pm.events)) :
    LET e == ClosingEvents(pm.events)[k]
    IN e.kind = "partial_close" =>
         /\ RecordOf(k).quantity = MulDiv(e.pos.quantity, e.info.num, e.info.den)
         /\ RecordOf(k).notional_usd
              = MulDiv(e.pos.notional_usd, e.info.num, e.info.den)
         /\ RecordOf(k).pnl
              = Pnl(e.pos.direction, e.pos.entry_price, e.price,
                    RecordOf(k).quantity)

\* C28: after every completed portfolio operation, and in every portfolio
\* document persisted, total_value equals current_balance plus the sum over
\* the open positions of margin_usd + unrealized_pnl.
C28_TotalValue ==
  /\ pm.total_value = PortfolioValue(pm.current_balance, pm.positions)
  /\ pm.state_file # << >> =>
       pm.state_file[1].total_value
         = PortfolioValue(pm.state_file[1].current_balance,
                          pm.state_file[1].positions)

\* C29: for each coin, recent_flip is reported exactly when the classified
\* trend changed from its recorded value in this cycle or in one of the 3
\* preceding cycles, and every such change sets last_flip_cycle to the cycle
\* in which it happened.
TrendChanged(c) ==
  /\ pm.trend_state[c].trend # "none"
  /\ pm'.trend_state[c].trend # pm.trend_state[c].trend

C29_FlipRecorded ==
  [][\A c \in Coins :
       TrendChanged(c) =>
         pm'.trend_state[c].last_flip_cycle = pm'.current_cycle_number]_vars

\* C21: when a step of a decision cycle raises, a record of that cycle that
\* carries the error is appended to the cycle history and the decision loop
\* is back where it starts its next cycle; a failing step never ends it.
CycleFailed(s) == s.actor = "cycle" /\ s.op \in {"error", "raise"}

C21_ErrorCycleRecorded ==
  [][CycleFailed(step') =>
       /\ pm'.cycle_history # << >>
       /\ pm'.cycle_history[Len(pm'.cycle_history)]
            = [cycle |-> cyc.cycle_number, status |-> "error",
               decisions |-> cyc.decisions]
       /\ pm'.cycle_history
            = LastRecords(Append(pm.cycle_history,
                                 pm'.cycle_history[Len(pm'.cycle_history)]),
                          max_cycle_history)
       /\ cyc'.pc = "idle"
       /\ cyc'.cycle_number = cyc.cycle_number]_vars

\* the execution of the decisions raised after the first entry was booked,
\* in a cycle that follows a failed one
C21_Witness ==
  /\ step = Did("cycle", "raise")
  /\ cyc.pc = "idle"
  /\ cyc.cycle_number = 2
  /\ Len(pm.positions) = 1
  /\ Len(pm.cycle_history) = 2
  /\ pm.cycle_history[1].status = "error"
  /\ pm.cycle_history[2].status = "error"
  /\ pm.cycle_history[2].decisions # << >>

\* C22: whenever run_trading_cycle has returned, normally or after an error
\* at any step, cycle_active is false and the exit monitor is enabled.
C22_FlagsReleased ==
  cyc.pc = "idle" => ~cycle_active /\ enhanced_exit_enabled

\* the cycle returned through its except clause with a position open, and
\* the monitor thread has taken up its exit check again
C22_Witness ==
  /\ cyc.pc = "idle"
  /\ pm.cycle_history # << >>
  /\ pm.cycle_history[Len(pm.cycle_history)].status = "error"
  /\ pm.positions # << >>
  /\ ~cycle_active
  /\ enhanced_exit_enabled
  /\ mon.pc = "check"

\* C23: before each cycle the decision loop reads the bot-control status:
\* no cycle starts while it is paused, and none starts once it is stopped.
C23_ControlHonoured ==
  [][step' = Did("cycle", "start") => bot_control \notin {"paused", "stopped"}]_vars

\* C25: a read of a state document that runs while the document is replaced
\* returns the complete previous document or the complete new one, never
\* an empty, partial or default value.
C25_ReadsComplete ==
  [][step' = Did("reader", "load") =>
       /\ store'.result # DefaultData
       /\ store'.result \in
            (IF store.writer = "idle" THEN {store.document}
             ELSE {store.document - 1, store.document})]_vars

\* C24: cycle numbers strictly increase over the whole life of the bot, a
\* restart included: a cycle that starts has a number greater than the number
\* of every cycle that was run before, however many there were.
C24_CycleNumbersIncrease ==
  [][step' = Did("cycle", "start") =>
       \A i \in 1..Len(pm.cycle_history) :
         pm.cycle_history[i].cycle < cyc'.cycle_number]_vars

\* C31: after every accepted entry no open position, the new one included,
\* has a margin_usd above 25 % of current_balance plus the margin_usd of all
\* open positions.
C31_Concentration ==
  (\E i \in 1..Len(pm.events) : pm.events[i].kind = "entry") =>
    \A k \in 1..Len(pm.positions) :
      pm.positions[k].margin_usd * 100
        <= max_concentration * (pm.current_balance + TotalMargin(pm.positions))

\* C32: every position opened has a leverage within [8, 10] that does not
\* exceed the configured cap MAX_LEVERAGE, whatever leverage was asked for
\* and whatever the cap (at least 1) is set to.
ConfiguredCap == (CHOOSE mv \in MarketOf(market).views : TRUE).max_leverage

C32_LeverageBand ==
  \A k \in 1..Len(pm.positions) :
    /\ pm.positions[k].leverage \in 8..10
    /\ pm.positions[k].leverage <= ConfiguredCap

\* C33: for a trend-following entry the half margin (volume ratio in
\* [0.5, 0.8)) and the confidence boost of 0.05 exclude each other: an entry
\* marked for partial margin is not boosted, and the boost is given only when
\* the ratio is at least 0.8.
DecisionFor(coin) ==
  cyc.decisions[CHOOSE i \in 1..Len(cyc.decisions) : cyc.decisions[i].coin = coin]

\* the confidence with which the entry of event e reached the
\* trend-following block
BeforeBoost(e) ==
  apply_directional_bias(
    e.info.signal,
    EntryConfidence(DecisionFor(e.symbol), [vq_ind |-> e.info.ind3m]),
    pm.latest_bias_metrics,
    ClassifyTrend(e.info.ind4h, e.info.ind3m)).confidence

C33_BoostOrHalfMargin ==
  \A i \in 1..Len(pm.events) :
    LET e == pm.events[i]
    IN (e.kind = "entry" /\ e.info.branch = "trend_following") =>
         /\ e.info.partial_margin => e.info.confidence = BeforeBoost(e)
         /\ e.info.confidence > BeforeBoost(e)
              => VolumeRatioAtLeast(e.info.ind3m, 8, 10)

\* ------------------------------------------------------------------------
\* C34: the state document holds no NaN token: a number that is not finite
\* is written as null (None), so that the saved document is plain JSON
C34_NoNanToken ==
  pm.state_file # << >> =>
    \A k \in 1..Len(pm.state_file[1].positions) :
      pm.state_file[1].positions[k].profit_target # NaNToken

\* ------------------------------------------------------------------------
\* C35: a call of get_real_time_data whose requests are all refused returns
\* the empty result after the waits of 1 s, 2 s and 4 s, and no call waits
\* otherwise than along that schedule
C35_Backoff ==
  /\ \E n \in 0..3 : klines.slept = SubSeq(<<1, 2, 4>>, 1, n)
  /\ (klines.pc = "returned" /\ klines.last \in KlineRefusals) =>
       /\ klines.result = "empty"
       /\ klines.slept = <<1, 2, 4>>

\* ------------------------------------------------------------------------
\* C36: each position is fully closed at most once: no step closes a
\* position whose margin the monitor has already returned to the cash and
\* whose full-close record the monitor has already written
C36_ClosedOnce ==
  [][\A i \in 1..Len(pm'.events) :
       pm'.events[i].kind \in FullCloseKinds =>
         ~(mon.pc = "delete" /\ mon.closing = pm'.events[i].symbol)]_vars

\* ------------------------------------------------------------------------
\* C37: the state document never lists a position together with a
\* current_balance to which the margin and the pnl of that position have
\* already been added by its full close
C37_NoCreditedPosition ==
  pm.state_file # << >> =>
    \A i \in 1..Len(pm.events) :
      (pm.events[i].kind \in FullCloseKinds
         /\ pm.state_file[1].current_balance = pm.events[i].bal_after) =>
        ~HasPos(pm.state_file[1].positions, pm.events[i].symbol)

\* ------------------------------------------------------------------------
\* C38: every override document but the one that waits in the file has
\* been applied by a cycle: none was replaced or deleted before it was read
C38_OverridesApplied ==
  \A n \in 1..overrides_written :
    \/ \E k \in 1..Len(applied_overrides) : applied_overrides[k] = n
    \/ n = overrides_written /\ override_file # << >>

\* record j of the history h belongs to the position that is open on its
\* coin now: no full close of that coin was recorded after it
OfOpenPosition(h, j) ==
  \A k \in (j + 1)..Len(h) :
    h[k].symbol = h[j].symbol => h[k].close_reason.kind = "Profit taking at gain"

\* ------------------------------------------------------------------------
\* C39: for one position each profit tier triggers at most one partial
\* close: no exit check takes a partial close at a tier at which the same
\* position has already had one
C39_OncePerTier ==
  [][\A i \in 1..Len(pm'.events) :
       pm'.events[i].kind = "partial_close" =>
         ~\E j \in 1..Len(pm.trade_history) :
            /\ pm.trade_history[j].symbol = pm'.events[i].symbol
            /\ pm.trade_history[j].close_reason = pm'.events[i].info.reason
            /\ OfOpenPosition(pm.trade_history, j)]_vars

\* the closed-trade records a step writes
RecordsWritten(events) ==
  Cardinality({i \in 1..Len(events) :
                 events[i].kind \in FullCloseKinds \cup {"partial_close"}})

\* ------------------------------------------------------------------------
\* C40: trade_count never decreases and counts every closed-trade record
\* written since the first start: each step raises it by the number of
\* records it writes, also beyond 100 trades and after a restart
C40_TradeCount ==
  [][pm'.trade_count = pm.trade_count + RecordsWritten(pm'.events)]_vars

====
